---- MODULE Spec2Model ----
(***************************************************************************)
(* 0xpads_listener: chain log subscription, dispatch and multi-interval   *)
(* OHLCV candle aggregation.                                               *)
(*                                                                         *)
(* Units.  Price.from_wei / Volume.from_wei divide a wei count by 10^18    *)
(* into a Decimal with 18 fractional digits; for every amount of at most   *)
(* 28 significant digits that Decimal is exact, so a Decimal is written    *)
(* here by its count of units.  Prices are counted in wei.  Token and ETH  *)
(* volumes are counted in units of 10^-6 (the tolerance that               *)
(* VolumeData.__post_init__ compares against), raw amounts being whole     *)
(* multiples of 10^12 wei.                                                 *)
(***************************************************************************)
EXTENDS Integers, Sequences, FiniteSets, TLC

(***************************************************************************)
(* Bounds of the model.                                                    *)
(***************************************************************************)
MaxLogs == 2          \* logs the node emits after the subscription started
MaxUpdates == 3       \* trades applied to one candle in SpecCandle
MaxFanEvents == 2     \* events handled in SpecFanOut
MaxPolls == 3         \* polling iterations in SpecIngest
MaxOffset == 2        \* seconds past an interval boundary in SpecFloor
MaxFailing == 1       \* intervals whose candle write fails for one trade
MaxSweeps == 2        \* iterations of the cleanup task in SpecCleanup
MaxSendFailures == 1  \* sends whose emit raises in SpecBackend
MaxConnectErrors == 1 \* connect_error callbacks in SpecBackend
MaxTicks == 1         \* link losses and further health rounds in SpecSupervisor
MaxWindow == 2        \* trades in a 24h window in SpecStats

PriceValues == {1, 2}            \* prices a curve moves between
CandlePrices == 0 .. 3           \* prices tried on a single candle
CandleAmounts == 0 .. 2          \* token amounts tried on a single candle
TimeSteps == {30, 86400}         \* seconds between two blocks
StatPrices == {0, 1, 2}          \* prices of the trades of a 24h window
StatAmounts == {1, 2}            \* token amounts of the trades of a window
StatTimes == {1, 2}              \* timestamps of the trades of a window
Clients == {"u1"}                \* client ids of subscribe requests

(***************************************************************************)
(* domain/value_objects.py                                                 *)
(***************************************************************************)
\* The interval list with "1h" written twice in place of "4h".
IntervalsDup == <<"1m", "5m", "15m", "1h", "1h", "1d">>

\* The interval list of ProcessTradeEventUseCase.execute.
Intervals == <<"1m", "5m", "15m", "1h", "4h", "1d">>

seconds(interval) ==
    CASE interval = "1m" -> 60
      [] interval = "5m" -> 300
      [] interval = "15m" -> 900
      [] interval = "1h" -> 3600
      [] interval = "4h" -> 14400
      [] interval = "1d" -> 86400

\* floor_timestamp rounding up to the next interval start.
floor_timestamp_mut(interval, timestamp) ==
    ((timestamp + seconds(interval) - 1) \div seconds(interval))
        * seconds(interval)

\* TimeInterval.floor_timestamp
floor_timestamp(interval, timestamp) ==
    (timestamp \div seconds(interval)) * seconds(interval)

Max(a, b) == IF a >= b THEN a ELSE b
Min(a, b) == IF a <= b THEN a ELSE b
Abs(a) == IF a >= 0 THEN a ELSE 0 - a

\* Price.from_wei: wei count to a Decimal counted in wei (exact, see Units).
Price_from_wei(wei_value) == wei_value

\* Volume.from_wei: raw amount (a multiple of 10^12 wei, written by its
\* multiple) to a Decimal counted in units of 10^-6.
Volume_from_wei(wei_value) == wei_value

\* PriceRange.__post_init__ raises unless both conditions hold.
PriceRangeValid(open, high, low, close) ==
    /\ ~ (high < Max(open, close))
    /\ ~ (low > Min(open, close))

\* VolumeData.__post_init__ raises unless both conditions hold.
VolumeDataValid(total_volume, buy_volume, sell_volume, trade_count) ==
    /\ ~ (trade_count < 0)
    /\ ~ (Abs(total_volume - (buy_volume + sell_volume)) > 1)

(***************************************************************************)
(* domain/entities.py: OHLCVCandle                                         *)
(***************************************************************************)
create_empty(token_address, interval, timestamp, initial_price) ==
    [token_address |-> token_address,
     interval      |-> interval,
     timestamp     |-> timestamp,
     open          |-> initial_price,
     high          |-> initial_price,
     low           |-> initial_price,
     close         |-> initial_price,
     total_volume  |-> 0,
     buy_volume    |-> 0,
     sell_volume   |-> 0,
     trade_count   |-> 0,
     volume_eth    |-> 0]

\* update_with_trade with the sell branch dropping the amount: a sell is
\* added to the total volume only.
update_with_trade_mut(candle, trade) ==
    [candle EXCEPT
       !.high = Max(candle.high, trade.price_after),
       !.low = Min(candle.low, trade.price_after),
       !.close = trade.price_after,
       !.total_volume = candle.total_volume + trade.token_amount,
       !.buy_volume = IF trade.is_buy
                      THEN candle.buy_volume + trade.token_amount
                      ELSE candle.buy_volume,
       !.sell_volume = candle.sell_volume,
       !.trade_count = candle.trade_count + 1,
       !.volume_eth = candle.volume_eth + trade.eth_amount]

update_with_trade(candle, trade) ==
    [candle EXCEPT
       !.high = Max(candle.high, trade.price_after),
       !.low = Min(candle.low, trade.price_after),
       !.close = trade.price_after,
       !.total_volume = candle.total_volume + trade.token_amount,
       !.buy_volume = IF trade.is_buy
                      THEN candle.buy_volume + trade.token_amount
                      ELSE candle.buy_volume,
       !.sell_volume = IF trade.is_buy
                       THEN candle.sell_volume
                       ELSE candle.sell_volume + trade.token_amount,
       !.trade_count = candle.trade_count + 1,
       !.volume_eth = candle.volume_eth + trade.eth_amount]

\* update_with_trade raises ValueError when PriceRange or VolumeData refuses
\* the new values; the candle is then left as it was.
update_raises(candle, trade) ==
    LET c == update_with_trade(candle, trade)
    IN  \/ ~ PriceRangeValid(c.open, c.high, c.low, c.close)
        \/ ~ VolumeDataValid(c.total_volume, c.buy_volume, c.sell_volume,
                             c.trade_count)

(***************************************************************************)
(* State.                                                                  *)
(***************************************************************************)
VARIABLES
    node,             \* the chain node: tip, curve prices, filter backlogs
    curve_contracts,  \* BlockchainService._curve_contracts, in insertion order
    event_filters,    \* BlockchainService._event_filters
    sub,              \* position of the subscribe_to_events generator
    handler,          \* position of _handle_blockchain_event / execute
    workers,          \* the six _update_candle_for_interval tasks of a trade
    event_history,    \* EventBus._event_history, candle events per key
    dispatched,       \* events the dispatch loop has received, in order
    completed,        \* events whose handling has returned or raised
    candle,           \* SpecCandle: the candle under test (empty or one)
    applied,          \* SpecCandle: trades applied to it
    fan,              \* SpecFanOut: position of the handler of one event
    redis,            \* SpecFanOut: what the Redis server holds
    ws,               \* SpecFanOut: WebSocketService fields, emits received
    processed,        \* SpecFanOut: number of events handled so far
    stats_window,     \* SpecStats: trades get_trades_in_timerange returned
    stats_result,     \* SpecStats: the market data computed (empty or one)
    client,           \* BlockchainService connection fields and its node link
    ingest,           \* SpecIngest: the polling loop and the dispatch loop
    listener,         \* SpecSupervisor: BlockchainListener.start and its tasks
    boot,             \* SpecMain: main() from initialize() to the exit
    floor_case,       \* SpecFloor: one floor_timestamp computation
    run,              \* SpecExecute: one call of execute(), its steps
    sweep,            \* SpecCleanup: the cleanup task, the clocks, the sets
    backend_socket    \* SpecBackend: the backend socket clients and callers

vars == <<node, curve_contracts, event_filters, sub, handler, workers,
          event_history, dispatched, completed, candle, applied,
          fan, redis, ws, processed, stats_window, stats_result,
          client, ingest, listener, boot, floor_case, run,
          sweep, backend_socket>>

pipelineVars == <<node, curve_contracts, event_filters, sub, handler, workers,
                  event_history, dispatched, completed>>

candleVars == <<candle, applied>>

fanVars == <<fan, redis, ws, processed>>

statsVars == <<stats_window, stats_result>>

unitVars == <<floor_case, run, sweep, backend_socket>>

lifeVars == <<client, ingest, listener, boot, unitVars>>

(***************************************************************************)
(* The chain: one factory, two curves.  c1 is deployed before the listener *)
(* connects and is found by _discover_existing_curves; c2 is deployed      *)
(* while the listener runs.                                                *)
(***************************************************************************)
FactoryAddress == "factory"
Curves == {"c1", "c2"}
Tokens == {"t1", "t2"}
InitialCurves == <<"c1">>

\* An address is written by a name; "c1" is its checksum spelling and
\* "c1_lc" the same twenty bytes spelled in lower case.  "other" is a
\* contract that is neither the factory nor a curve.
\* str.lower()
lower(address) ==
    CASE address = "factory" -> "factory_lc"
      [] address = "c1" -> "c1_lc"
      [] address = "c2" -> "c2_lc"
      [] address = "other" -> "other_lc"
      [] OTHER -> address

\* Web3.to_checksum_address
to_checksum_address(address) ==
    CASE address = "factory_lc" -> "factory"
      [] address = "c1_lc" -> "c1"
      [] address = "c2_lc" -> "c2"
      [] address = "other_lc" -> "other"
      [] OTHER -> address

\* TransactionHash.__post_init__ accepts a text of this length only.
tx_hash_len == 66

\* A hash text is written by whether it starts with "0x" and by its length.
\* HexBytes.hex() of a 32-byte hash is 64 hex digits; hexbytes before 1.0
\* puts "0x" in front of them.
HexTexts ==
    {[starts_0x |-> FALSE, len |-> tx_hash_len - 2],
     [starts_0x |-> TRUE, len |-> tx_hash_len]}

BareHex == [starts_0x |-> FALSE, len |-> tx_hash_len - 2]

\* f"0x{text}"
prefix_0x(text) == [starts_0x |-> TRUE, len |-> text.len + 2]

\* TransactionHash.__post_init__ raises ValueError.
TransactionHash_raises(value) ==
    ~ value.starts_0x \/ value.len # tx_hash_len

\* IndividualBondingCurve.token(): the token a curve prices.
token_of(curve_address) == IF curve_address = "c1" THEN "t1" ELSE "t2"

CurveEvents == <<"Trade", "TokensPurchased", "TokensSold">>

IntervalIndex == 1 .. Len(Intervals)

InitWorkers == [i \in IntervalIndex |-> [pc |-> "done", existing |-> <<>>]]

InitPipeline ==
    /\ node = [block |-> 1, logIndex |-> 0, time |-> 172800,
               price |-> [c \in Curves |-> 1],
               deployed |-> {InitialCurves[k] : k \in 1 .. Len(InitialCurves)},
               pending |-> <<>>,
               emitted |-> 0]
    /\ curve_contracts = InitialCurves
    /\ event_filters = <<>>
    /\ sub = [pc |-> "init", idx |-> 1, events |-> <<>>]
    /\ handler = [pc |-> "idle", trade |-> <<>>]
    /\ workers = InitWorkers
    /\ event_history = [t \in Tokens |-> [i \in IntervalIndex |-> <<>>]]
    /\ dispatched = <<>>
    /\ completed = 0

InitCandle ==
    /\ candle = <<>>
    /\ applied = 0

\* Keys of the cache: trade:latest:<token>, market:<token>, curve:<token>.
CacheKeys == {"trade:latest", "market", "curve"} \X Tokens

Sinks == {"cache", "room", "backend", "stream"}

InitFan ==
    /\ fan = [pc |-> "idle", event |-> <<>>, trade |-> <<>>,
              market_data |-> <<>>, calls |-> <<>>,
              outcome |-> [k \in Sinks |-> "none"],
              subscribed |-> FALSE, connected |-> FALSE,
              xadd_attempts |-> 0]
    /\ redis = [cache |-> [k \in CacheKeys |-> <<>>],
                trades_stream |-> [t \in Tokens |-> {}],
                stream |-> <<>>]
    /\ ws = [is_connected |-> TRUE, reconnect_attempts |-> 0,
             rooms |-> <<>>, emits |-> <<>>]
    /\ processed = 0

InitStats ==
    /\ stats_window = <<>>
    /\ stats_result = <<>>

\* The chain client after connect(): the provider is set, the flag is up,
\* the latest block number is cached; link is the node's end of the
\* WebSocket connection.
ConnectedClient ==
    [w3 |-> TRUE, is_connected |-> TRUE, reconnect_attempts |-> 0,
     last_block_number |-> 1, link |-> TRUE]

\* The supervisor tasks, by the names _run_event_loop gives them.
Tasks ==
    {"blockchain_events", "periodic_cleanup", "health_monitor",
     "shutdown_waiter"}

\* start() has set _running and _run_event_loop has created the four
\* tasks, each about to run its first step.  signalled, lost, cancelled
\* record what has happened to the tasks so far.
InitSupervisor ==
    listener = [running |-> TRUE, shutdown_event |-> FALSE,
                redis_service |-> [pool |-> TRUE, is_connected |-> TRUE],
                task |-> [t \in Tasks |->
                            CASE t = "blockchain_events" -> "subscribe"
                              [] t = "periodic_cleanup" -> "working"
                              [] t = "health_monitor" -> "redis"
                              [] OTHER -> "waiting"],
                sup |-> "waiting", pending |-> {}, awaiting |-> "none",
                cancelled |-> {}, shutdown_task |-> "none",
                signalled |-> FALSE, lost |-> FALSE, last_poll |-> "none",
                checks |-> 0, ticks |-> 0, teardowns |-> 0,
                exit_status |-> -1]

\* main() before listener.initialize(): no service has been built.  The
\* *_ok fields record what the environment answered during start-up.
InitBoot ==
    boot = [pc |-> "redis", redis_service |-> <<>>,
            websocket_service |-> "none", blockchain_service |-> FALSE,
            use_cases |-> FALSE, tasks |-> FALSE, exit_status |-> -1,
            redis_ok |-> FALSE, backend_ok |-> FALSE, node_ok |-> FALSE,
            node_chain_id |-> 0, connect_returned |-> FALSE]

InitIngest ==
    /\ client = ConnectedClient
    /\ ingest = [pc |-> "poll", polls |-> 0, entries |-> <<>>,
                 queue |-> <<>>, yielded |-> 0, handled |-> 0,
                 raised |-> 0, after_raise |-> 0, loop |-> "running",
                 added |-> <<>>, disconnected |-> FALSE]

\* The listener constructed and connected, its tasks about to start.
InitServices ==
    /\ InitPipeline /\ InitCandle /\ InitFan /\ InitStats
    /\ InitIngest /\ InitSupervisor /\ InitBoot

\* No call of execute() is under way.
RunIdle ==
    [pc |-> "idle", event |-> <<>>, trade |-> <<>>, market_data |-> <<>>,
     candle_errors |-> {}, alerts |-> "none", large_trades |-> <<>>,
     steps |-> <<>>,
     outcome |-> [k \in Sinks |-> "none"], returned |-> <<>>]

\* No computation of a value object is under way.
InitUnit ==
    floor_case = <<>> /\ run = RunIdle /\ sweep = <<>> /\ backend_socket = <<>>

Init == InitServices /\ InitUnit

(***************************************************************************)
(* SpecCandle: one candle, created by create_empty and then mutated by     *)
(* update_with_trade with arbitrary trades.                                *)
(***************************************************************************)
CandleTrades ==
    [is_buy : BOOLEAN, token_amount : CandleAmounts, eth_amount : {1},
     price_after : CandlePrices]

CandleCreate ==
    /\ candle = <<>>
    /\ \E p \in CandlePrices :
          candle' = <<create_empty("t1", "1m", 0, p)>>
    /\ UNCHANGED applied
    /\ UNCHANGED <<pipelineVars, fanVars, statsVars, lifeVars>>

CandleUpdate ==
    /\ candle # <<>>
    /\ applied < MaxUpdates
    /\ \E t \in CandleTrades :
          candle' = IF update_raises(candle[1], t)
                    THEN candle
                    ELSE <<update_with_trade(candle[1], t)>>
    /\ applied' = applied + 1
    /\ UNCHANGED <<pipelineVars, fanVars, statsVars, lifeVars>>

NextCandle == CandleCreate \/ CandleUpdate

SpecCandle == Init /\ [][NextCandle]_vars

(***************************************************************************)
(* The node.  A log enters the backlog of every installed filter whose     *)
(* contract address and event name match it (from_block='latest': only     *)
(* logs emitted after the filter was created).  Block production does not  *)
(* depend on the listener and the handler never reads the node, so a log   *)
(* emitted while an event is being handled is indistinguishable from one   *)
(* emitted right after: the node emits while the generator is polling.     *)
(***************************************************************************)
RECURSIVE Deliver(_, _, _, _)
Deliver(pending, filters, log, k) ==
    IF k > Len(filters)
    THEN pending
    ELSE Deliver(IF /\ filters[k].address = log.address
                    /\ filters[k].event = log.event
                 THEN [pending EXCEPT ![k] = Append(@, log)]
                 ELSE pending,
                 filters, log, k + 1)

\* Every log is the first of a new block mined dt seconds after the tip.
NodeAfter(dt) ==
    [node EXCEPT !.block = @ + 1, !.logIndex = 0, !.time = @ + dt,
                 !.emitted = @ + 1]

LogOf(n, address, event, args) ==
    [address |-> address, event |-> event, args |-> args,
     blockNumber |-> n.block, logIndex |-> n.logIndex,
     block_timestamp |-> n.time, transactionHash |-> BareHex,
     removed |-> FALSE]

CanEmit ==
    /\ sub.pc = "poll"
    /\ handler.pc = "idle"
    /\ node.emitted < MaxLogs

\* BondingCurveFactory emits BondingCurveDeployed for a new curve.
EmitDeployed ==
    /\ CanEmit
    /\ \E c \in Curves \ node.deployed, dt \in TimeSteps :
          LET n == NodeAfter(dt)
              log == LogOf(n, FactoryAddress, "BondingCurveDeployed",
                           [tokenAddress |-> token_of(c), curveAddress |-> c,
                            creator |-> "creator", name |-> "name",
                            symbol |-> "symbol", timestamp |-> n.time])
          IN  node' = [n EXCEPT !.deployed = @ \cup {c},
                                !.pending = Deliver(@, event_filters, log, 1)]
    /\ UNCHANGED <<curve_contracts, event_filters, sub, handler, workers,
                   event_history, dispatched, completed>>
    /\ UNCHANGED <<candleVars, fanVars, statsVars, lifeVars>>

\* A deployed curve executes a trade that moves its price: a buy raises it,
\* a sell lowers it.  The curve reports it as Trade, or as TokensPurchased /
\* TokensSold.
EmitTrade ==
    /\ CanEmit
    /\ \E c \in node.deployed, native \in BOOLEAN, dt \in TimeSteps :
       \E p \in PriceValues \ {node.price[c]} :
          LET n == NodeAfter(dt)
              isBuy == p > node.price[c]
              log == IF native
                     THEN LogOf(n, c, "Trade",
                                [isBuy |-> isBuy, ethInOrOut |-> 1,
                                 tokenDelta |-> 1,
                                 priceBefore |-> node.price[c],
                                 priceAfter |-> p, supplyAfter |-> 5,
                                 timestamp |-> n.time])
                     ELSE IF isBuy
                     THEN LogOf(n, c, "TokensPurchased",
                                [tokensReceived |-> 1, ethSpent |-> 1,
                                 newPrice |-> p])
                     ELSE LogOf(n, c, "TokensSold",
                                [tokenAmount |-> 1, ethReceived |-> 1,
                                 newPrice |-> p])
          IN  node' = [n EXCEPT !.price[c] = p,
                                !.pending = Deliver(@, event_filters, log, 1)]
    /\ UNCHANGED <<curve_contracts, event_filters, sub, handler, workers,
                   event_history, dispatched, completed>>
    /\ UNCHANGED <<candleVars, fanVars, statsVars, lifeVars>>

(***************************************************************************)
(* infrastructure/blockchain/blockchain_service.py                         *)
(***************************************************************************)
InSeq(x, seq) == \E k \in 1 .. Len(seq) : seq[k] = x

\* _add_curve_contract keyed by the address as it was passed.
add_curve_contract_mut(contracts, curve_address) ==
    IF InSeq(curve_address, contracts)
    THEN contracts
    ELSE Append(contracts, curve_address)

\* _add_curve_contract: keyed by the checksum address, a known address is
\* left alone.
add_curve_contract(contracts, curve_address) ==
    LET checksum == to_checksum_address(curve_address)
    IN  IF InSeq(checksum, contracts)
        THEN contracts
        ELSE Append(contracts, checksum)

\* The filters _setup_event_filters creates for one curve.
CurveFilters(curve_address) ==
    [k \in 1 .. Len(CurveEvents) |->
        [address |-> curve_address, event |-> CurveEvents[k]]]

RECURSIVE AllCurveFilters(_, _)
AllCurveFilters(contracts, k) ==
    IF k > Len(contracts)
    THEN <<>>
    ELSE CurveFilters(contracts[k]) \o AllCurveFilters(contracts, k + 1)

\* _setup_event_filters: the factory filter, then three per known curve.
setup_event_filters(filters, contracts) ==
    filters
      \o <<[address |-> FactoryAddress, event |-> "BondingCurveDeployed"]>>
      \o AllCurveFilters(contracts, 1)

\* _process_factory_event: the dict yielded for a BondingCurveDeployed log.
process_factory_event(log) ==
    [event_type |-> "BondingCurveDeployed",
     token_address |-> log.args.tokenAddress,
     curve_address |-> log.args.curveAddress,
     creator |-> log.args.creator,
     name |-> log.args.name,
     symbol |-> log.args.symbol,
     timestamp |-> log.args.timestamp,
     block_number |-> log.blockNumber,
     block_timestamp |-> log.block_timestamp,
     tx_hash |-> log.transactionHash,
     log_index |-> log.logIndex]

\* _process_curve_event: the dict yielded for a curve log, none for an
\* event name it does not know.
process_curve_event(log) ==
    CASE log.event = "Trade" ->
           <<[event_type |-> "Trade",
              token_address |-> token_of(log.address),
              curve_address |-> log.address,
              is_buy |-> log.args.isBuy,
              eth_amount |-> log.args.ethInOrOut,
              token_amount |-> log.args.tokenDelta,
              price_before |-> log.args.priceBefore,
              price_after |-> log.args.priceAfter,
              total_supply |-> log.args.supplyAfter,
              timestamp |-> log.args.timestamp,
              block_number |-> log.blockNumber,
              block_timestamp |-> log.block_timestamp,
              tx_hash |-> prefix_0x(log.transactionHash),
              log_index |-> log.logIndex]>>
      [] log.event = "TokensPurchased" ->
           <<[event_type |-> "TokensPurchased",
              token_address |-> token_of(log.address),
              curve_address |-> log.address,
              tokens_received |-> log.args.tokensReceived,
              eth_spent |-> log.args.ethSpent,
              new_price |-> log.args.newPrice,
              block_number |-> log.blockNumber,
              block_timestamp |-> log.block_timestamp,
              tx_hash |-> prefix_0x(log.transactionHash),
              log_index |-> log.logIndex]>>
      [] log.event = "TokensSold" ->
           <<[event_type |-> "TokensSold",
              token_address |-> token_of(log.address),
              curve_address |-> log.address,
              token_amount |-> log.args.tokenAmount,
              eth_received |-> log.args.ethReceived,
              new_price |-> log.args.newPrice,
              block_number |-> log.blockNumber,
              block_timestamp |-> log.block_timestamp,
              tx_hash |-> prefix_0x(log.transactionHash),
              log_index |-> log.logIndex]>>
      [] OTHER -> <<>>

\* _process_log_entry that takes every log that is not the factory's for a
\* curve log.
process_log_entry_mut(contracts, log) ==
    IF lower(log.address) = lower(FactoryAddress)
    THEN IF log.event = "BondingCurveDeployed"
         THEN [contracts |-> add_curve_contract(contracts,
                                                log.args.curveAddress),
               event |-> <<process_factory_event(log)>>]
         ELSE [contracts |-> contracts, event |-> <<>>]
    ELSE [contracts |-> contracts, event |-> process_curve_event(log)]

\* _process_log_entry: the registry after the entry and the event it yields
\* (none when the log is dropped).  The factory address is compared in
\* lower case, the registry is looked up with the address as delivered.
process_log_entry(contracts, log) ==
    IF lower(log.address) = lower(FactoryAddress)
    THEN IF log.event = "BondingCurveDeployed"
         THEN [contracts |-> add_curve_contract(contracts,
                                                log.args.curveAddress),
               event |-> <<process_factory_event(log)>>]
         ELSE [contracts |-> contracts, event |-> <<>>]
    ELSE IF InSeq(log.address, contracts)
    THEN [contracts |-> contracts, event |-> process_curve_event(log)]
    ELSE [contracts |-> contracts, event |-> <<>>]

\* The inner loop of subscribe_to_events over the new entries of one filter.
RECURSIVE ProcessEntries(_, _, _)
ProcessEntries(entries, contracts, events) ==
    IF entries = <<>>
    THEN [contracts |-> contracts, events |-> events]
    ELSE LET r == process_log_entry(contracts, Head(entries))
         IN  ProcessEntries(Tail(entries), r.contracts, events \o r.event)

\* subscribe_to_events up to its polling loop: install the filters.
Subscribe ==
    /\ sub.pc = "init"
    /\ event_filters' = setup_event_filters(event_filters, curve_contracts)
    /\ node' = [node EXCEPT
                  !.pending = [k \in 1 .. Len(event_filters') |-> <<>>]]
    /\ sub' = [sub EXCEPT !.pc = "poll", !.idx = 1]
    /\ UNCHANGED <<curve_contracts, handler, workers, event_history,
                   dispatched, completed>>
    /\ UNCHANGED <<candleVars, fanVars, statsVars, lifeVars>>

\* One filter of a polling iteration: get_new_entries, then every entry
\* through _process_log_entry.  After the last filter the collected events
\* are yielded in list order; an iteration that collected none sleeps and
\* starts the next one.
PollFilter ==
    /\ sub.pc = "poll"
    /\ handler.pc = "idle"
    /\ sub.idx <= Len(event_filters)
    /\ LET r == ProcessEntries(node.pending[sub.idx], curve_contracts,
                               sub.events)
           last == sub.idx = Len(event_filters)
       IN  /\ node' = [node EXCEPT !.pending[sub.idx] = <<>>]
           /\ curve_contracts' = r.contracts
           /\ sub' = IF ~ last
                     THEN [sub EXCEPT !.idx = @ + 1, !.events = r.events]
                     ELSE IF r.events = <<>>
                     THEN [sub EXCEPT !.idx = 1, !.events = <<>>]
                     ELSE [pc |-> "yield", idx |-> 1, events |-> r.events]
    /\ UNCHANGED <<event_filters, handler, workers, event_history,
                   dispatched, completed>>
    /\ UNCHANGED <<candleVars, fanVars, statsVars, lifeVars>>

(***************************************************************************)
(* main.py: the dispatch loop                                              *)
(***************************************************************************)
\* _convert_to_trade_event that takes the direction of every converted
\* event to be a buy and the price before to be the new price.
convert_to_trade_event_mut(event) ==
    IF event.event_type \in {"TokensPurchased", "TokensSold"}
    THEN [event_type |-> "Trade",
          token_address |-> event.token_address,
          curve_address |-> event.curve_address,
          is_buy |-> TRUE,
          eth_amount |-> IF event.event_type = "TokensPurchased"
                         THEN event.eth_spent ELSE event.eth_received,
          token_amount |-> IF event.event_type = "TokensPurchased"
                           THEN event.tokens_received
                           ELSE event.token_amount,
          price_before |-> event.new_price,
          price_after |-> event.new_price,
          total_supply |-> 0,
          timestamp |-> event.block_timestamp,
          block_number |-> event.block_number,
          block_timestamp |-> event.block_timestamp,
          tx_hash |-> event.tx_hash]
    ELSE event

\* _convert_to_trade_event: TokensPurchased / TokensSold as a Trade dict.
convert_to_trade_event(event) ==
    IF event.event_type = "TokensPurchased"
    THEN [event_type |-> "Trade",
          token_address |-> event.token_address,
          curve_address |-> event.curve_address,
          is_buy |-> TRUE,
          eth_amount |-> event.eth_spent,
          token_amount |-> event.tokens_received,
          price_before |-> 0,
          price_after |-> event.new_price,
          total_supply |-> 0,
          timestamp |-> event.block_timestamp,
          block_number |-> event.block_number,
          block_timestamp |-> event.block_timestamp,
          tx_hash |-> event.tx_hash]
    ELSE IF event.event_type = "TokensSold"
    THEN [event_type |-> "Trade",
          token_address |-> event.token_address,
          curve_address |-> event.curve_address,
          is_buy |-> FALSE,
          eth_amount |-> event.eth_received,
          token_amount |-> event.token_amount,
          price_before |-> 0,
          price_after |-> event.new_price,
          total_supply |-> 0,
          timestamp |-> event.block_timestamp,
          block_number |-> event.block_number,
          block_timestamp |-> event.block_timestamp,
          tx_hash |-> event.tx_hash]
    ELSE event

(***************************************************************************)
(* application/use_cases.py: ProcessTradeEventUseCase                      *)
(***************************************************************************)
\* _create_trade_from_raw_event
create_trade_from_raw_event(raw_event) ==
    [token_address |-> raw_event.token_address,
     curve_address |-> raw_event.curve_address,
     is_buy |-> raw_event.is_buy,
     token_amount |-> Volume_from_wei(raw_event.token_amount),
     eth_amount |-> Volume_from_wei(raw_event.eth_amount),
     price_before |-> Price_from_wei(raw_event.price_before),
     price_after |-> Price_from_wei(raw_event.price_after),
     total_supply |-> Volume_from_wei(raw_event.total_supply),
     block_number |-> raw_event.block_number,
     tx_hash |-> raw_event.tx_hash,
     timestamp |-> raw_event.timestamp]

\* _create_trade_from_raw_event raises: of the value objects it builds
\* from a yielded event only TransactionHash can reject its argument.
create_trade_raises(raw_event) == TransactionHash_raises(raw_event.tx_hash)

\* The trade that execute() builds for a yielded Trade, TokensPurchased or
\* TokensSold event.
TradeOfEvent(event) ==
    create_trade_from_raw_event(convert_to_trade_event(event))

IsTradeEvent(event) ==
    event.event_type \in {"Trade", "TokensPurchased", "TokensSold"}

\* RedisCandleRepository.get_latest_candle: returns None.
get_latest_candle(token_address, interval) == <<>>

\* The branch of _update_candle_for_interval after the read: the event it
\* publishes, none when update_with_trade raised (caught and logged).
\* RedisCandleRepository.update_candle and save_candle store nothing.
update_candle_for_interval(trade, interval, existing_candle) ==
    LET candle_timestamp == floor_timestamp(interval, trade.timestamp)
    IN  IF /\ existing_candle # <<>>
           /\ existing_candle[1].timestamp = candle_timestamp
        THEN IF update_raises(existing_candle[1], trade)
             THEN <<>>
             ELSE <<[type |-> "CandleUpdated",
                     candle |-> update_with_trade(existing_candle[1], trade)]>>
        ELSE LET new_candle == create_empty(trade.token_address, interval,
                                            candle_timestamp,
                                            trade.price_before)
             IN  IF update_raises(new_candle, trade)
                 THEN <<>>
                 ELSE <<[type |-> "NewCandleCreated",
                         candle |-> update_with_trade(new_candle, trade)]>>

\* The dispatch loop receives the next yielded event and awaits its handler:
\* _handle_blockchain_event up to its first suspension.  For a trade that
\* is execute() up to asyncio.gather over the six interval tasks.
Dispatch ==
    /\ sub.pc = "yield"
    /\ handler.pc = "idle"
    /\ sub.events # <<>>
    /\ LET event == Head(sub.events)
       IN  /\ dispatched' = Append(dispatched, event)
           /\ sub' = IF Tail(sub.events) = <<>>
                     THEN [pc |-> "poll", idx |-> 1, events |-> <<>>]
                     ELSE [sub EXCEPT !.events = Tail(@)]
           /\ IF IsTradeEvent(event)
              THEN /\ handler' = [pc |-> "candles",
                                  trade |-> <<TradeOfEvent(event)>>]
                   /\ workers' = [i \in IntervalIndex |->
                                    [pc |-> "read", existing |-> <<>>]]
              ELSE /\ handler' = [pc |-> "curve", trade |-> <<>>]
                   /\ UNCHANGED workers
    /\ UNCHANGED <<node, curve_contracts, event_filters, event_history,
                   completed>>
    /\ UNCHANGED <<candleVars, fanVars, statsVars, lifeVars>>

\* _update_candle_for_interval, first half: await get_latest_candle.
WorkerRead(i) ==
    /\ handler.pc = "candles"
    /\ workers[i].pc = "read"
    /\ workers' = [workers EXCEPT
                     ![i] = [pc |-> "write",
                             existing |-> get_latest_candle(
                                 handler.trade[1].token_address,
                                 Intervals[i])]]
    /\ UNCHANGED <<node, curve_contracts, event_filters, sub, handler,
                   event_history, dispatched, completed>>
    /\ UNCHANGED <<candleVars, fanVars, statsVars, lifeVars>>

\* _update_candle_for_interval, second half: update or create the candle,
\* hand it to the repository, publish the candle event.
WorkerWrite(i) ==
    /\ handler.pc = "candles"
    /\ workers[i].pc = "write"
    /\ LET trade == handler.trade[1]
           published == update_candle_for_interval(trade, Intervals[i],
                                                   workers[i].existing)
       IN  event_history' =
             [event_history EXCEPT
                ![trade.token_address][i] = @ \o published]
    /\ workers' = [workers EXCEPT ![i] = [pc |-> "done", existing |-> <<>>]]
    /\ UNCHANGED <<node, curve_contracts, event_filters, sub, handler,
                   dispatched, completed>>
    /\ UNCHANGED <<candleVars, fanVars, statsVars, lifeVars>>

\* execute() after the gather: the remaining steps run (they are followed
\* one by one in SpecFanOut) and the handler returns to the dispatch loop.
FinishTrade ==
    /\ handler.pc = "candles"
    /\ \A i \in IntervalIndex : workers[i].pc = "done"
    /\ handler' = [pc |-> "idle", trade |-> <<>>]
    /\ completed' = completed + 1
    /\ UNCHANGED <<node, curve_contracts, event_filters, sub, workers,
                   event_history, dispatched>>
    /\ UNCHANGED <<candleVars, fanVars, statsVars, lifeVars>>

\* ManageBondingCurvesUseCase.add_new_curve for a BondingCurveDeployed
\* event (followed in SpecFanOut); the handler returns or raises and the
\* dispatch loop goes on.
AddNewCurve ==
    /\ handler.pc = "curve"
    /\ handler' = [pc |-> "idle", trade |-> <<>>]
    /\ completed' = completed + 1
    /\ UNCHANGED <<node, curve_contracts, event_filters, sub, workers,
                   event_history, dispatched>>
    /\ UNCHANGED <<candleVars, fanVars, statsVars, lifeVars>>

Next ==
    \/ Subscribe
    \/ EmitDeployed
    \/ EmitTrade
    \/ PollFilter
    \/ Dispatch
    \/ \E i \in IntervalIndex : WorkerRead(i)
    \/ \E i \in IntervalIndex : WorkerWrite(i)
    \/ FinishTrade
    \/ AddNewCurve

Spec == Init /\ [][Next]_vars

(***************************************************************************)
(* application/use_cases.py: 24h market statistics.                        *)
(*                                                                         *)
(* A percentage is a Decimal quotient times 100.  The prices of a window   *)
(* are taken from StatPrices, whose non-zero members divide 100, so every  *)
(* quotient is exact and the percentage is written as an integer.          *)
(* market_cap is a product of a volume (units of 10^-6) and a price (wei)  *)
(* and is counted in units of 10^-24.                                      *)
(***************************************************************************)
\* RedisTradeRepository.save_trade: stores nothing.
save_trade(trades_stream, trade) == trades_stream

\* RedisTradeRepository.get_trades_in_timerange: returns [].
get_trades_in_timerange(token_address, trade) == <<>>

\* Price.__post_init__ raises ValueError for a negative value.
Price_raises(value) == value < 0

\* Price.percentage_change, self and other being prices.
percentage_change(self, other) ==
    IF other = 0
    THEN 0
    ELSE ((self - other) * 100) \div other

\* list.sort(key=lambda t: t.timestamp): a stable insertion sort.
RECURSIVE InsertByTimestamp(_, _)
InsertByTimestamp(sorted, t) ==
    IF sorted = <<>>
    THEN <<t>>
    ELSE IF Head(sorted).timestamp <= t.timestamp
    THEN <<Head(sorted)>> \o InsertByTimestamp(Tail(sorted), t)
    ELSE <<t>> \o sorted

RECURSIVE SortByTimestamp(_)
SortByTimestamp(trades) ==
    IF trades = <<>>
    THEN <<>>
    ELSE InsertByTimestamp(SortByTimestamp(SubSeq(trades, 1, Len(trades) - 1)),
                           trades[Len(trades)])

RECURSIVE SumOf(_, _)
SumOf(trades, field) ==
    IF trades = <<>>
    THEN 0
    ELSE Head(trades)[field] + SumOf(Tail(trades), field)

ZeroStats ==
    [raised |-> FALSE, price_change |-> 0, price_change_percent |-> 0,
     volume |-> 0, volume_eth |-> 0, trades |-> 0]

\* _calculate_24h_stats, trades_24h being what the repository returned:
\* raised is set when the function leaves by an exception.
calculate_24h_stats(trades_24h) ==
    IF trades_24h = <<>>
    THEN ZeroStats
    ELSE LET sorted == SortByTimestamp(trades_24h)
             first_trade == sorted[1]
             last_trade == sorted[Len(sorted)]
             change == last_trade.price_after - first_trade.price_before
         IN  IF Price_raises(change)
             THEN [ZeroStats EXCEPT !.raised = TRUE]
             ELSE [raised |-> FALSE,
                   price_change |-> change,
                   price_change_percent |->
                       percentage_change(first_trade.price_before,
                                         last_trade.price_after),
                   volume |-> SumOf(trades_24h, "token_amount"),
                   volume_eth |-> SumOf(trades_24h, "eth_amount"),
                   trades |-> Len(trades_24h)]

\* _update_market_data with the handler's fallback returning trades_24h = 1.
update_market_data_mut(trade, trades_24h) ==
    LET stats_24h == calculate_24h_stats(trades_24h)
    IN  [token_address |-> trade.token_address,
         current_price |-> trade.price_after,
         price_change_24h |-> stats_24h.price_change,
         price_change_percent_24h |-> stats_24h.price_change_percent,
         volume_24h |-> stats_24h.volume,
         volume_eth_24h |-> stats_24h.volume_eth,
         trades_24h |-> IF stats_24h.raised THEN 1 ELSE stats_24h.trades,
         market_cap |-> trade.total_supply * trade.price_after]

\* _update_market_data: the MarketData it returns.  When the statistics
\* raised, the except branch returns the zeroed record.
update_market_data(trade, trades_24h) ==
    LET stats_24h == calculate_24h_stats(trades_24h)
    IN  IF stats_24h.raised
        THEN [token_address |-> trade.token_address,
              current_price |-> trade.price_after,
              price_change_24h |-> 0,
              price_change_percent_24h |-> 0,
              volume_24h |-> 0,
              volume_eth_24h |-> 0,
              trades_24h |-> 0,
              market_cap |-> trade.total_supply * trade.price_after]
        ELSE [token_address |-> trade.token_address,
              current_price |-> trade.price_after,
              price_change_24h |-> stats_24h.price_change,
              price_change_percent_24h |-> stats_24h.price_change_percent,
              volume_24h |-> stats_24h.volume,
              volume_eth_24h |-> stats_24h.volume_eth,
              trades_24h |-> stats_24h.trades,
              market_cap |-> trade.total_supply * trade.price_after]

(***************************************************************************)
(* SpecStats: _update_market_data over the windows a repository can        *)
(* return.                                                                 *)
(***************************************************************************)
\* The trades of a window: _calculate_24h_stats reads these fields only.
WindowTrades ==
    [timestamp : StatTimes, price_before : StatPrices,
     price_after : StatPrices, token_amount : StatAmounts, eth_amount : {1}]

\* The trade being processed: _update_market_data reads these fields only.
CurrentTrades ==
    [token_address : {"t1"}, price_after : {1, 2}, total_supply : {0, 5}]

\* The repository returns one more trade for the window.
StatsWindowAppend ==
    /\ Len(stats_window) < MaxWindow
    /\ \E t \in WindowTrades : stats_window' = Append(stats_window, t)
    /\ stats_result' = <<>>
    /\ UNCHANGED <<pipelineVars, candleVars, fanVars, lifeVars>>

\* _update_market_data for a trade over the window.
StatsUpdate ==
    /\ stats_result = <<>>
    /\ \E t \in CurrentTrades :
          stats_result' = <<[trade |-> t,
                             market_data |->
                                 update_market_data(t, stats_window)]>>
    /\ UNCHANGED stats_window
    /\ UNCHANGED <<pipelineVars, candleVars, fanVars, lifeVars>>

NextStats == StatsWindowAppend \/ StatsUpdate

SpecStats == Init /\ [][NextStats]_vars

(***************************************************************************)
(* infrastructure/websocket/websocket_service.py                           *)
(*                                                                         *)
(* A room name f"token:{a}" or f"token:{a}:{i}" is written as the tuple    *)
(* of its parts: two names are equal exactly when their tuples are.        *)
(***************************************************************************)
None == "None"

\* dict.get(key, default)
dict_get(data, key, default) ==
    IF key \in DOMAIN data THEN data[key] ELSE default

RECURSIVE list_remove(_, _)
\* list.remove(x): the list without the first occurrence of x.
list_remove(list, x) ==
    IF list = <<>>
    THEN <<>>
    ELSE IF Head(list) = x
    THEN Tail(list)
    ELSE <<Head(list)>> \o list_remove(Tail(list), x)

\* The truth value Python gives a field of a message: None and the empty
\* string are false.
truthy(value) == value # None /\ value # ""

\* The subscribe_request handler appending without the membership test.
subscribe_request_mut(rooms, data) ==
    LET token_address == dict_get(data, "token_address", None)
        interval == dict_get(data, "interval", "1m")
        client_id == dict_get(data, "client_id", None)
        room == <<"token", token_address, interval>>
        created == IF room \in DOMAIN rooms
                   THEN rooms
                   ELSE (room :> <<>>) @@ rooms
    IN  IF truthy(token_address) /\ truthy(client_id)
        THEN [created EXCEPT ![room] = Append(@, client_id)]
        ELSE rooms

\* The subscribe_request handler: _rooms after the request.
subscribe_request(rooms, data) ==
    LET token_address == dict_get(data, "token_address", None)
        interval == dict_get(data, "interval", "1m")
        client_id == dict_get(data, "client_id", None)
        room == <<"token", token_address, interval>>
        created == IF room \in DOMAIN rooms
                   THEN rooms
                   ELSE (room :> <<>>) @@ rooms
    IN  IF truthy(token_address) /\ truthy(client_id)
        THEN IF InSeq(client_id, created[room])
             THEN created
             ELSE [created EXCEPT ![room] = Append(@, client_id)]
        ELSE rooms

\* The unsubscribe_request handler: _rooms after the request.
unsubscribe_request(rooms, data) ==
    LET token_address == dict_get(data, "token_address", None)
        interval == dict_get(data, "interval", "1m")
        client_id == dict_get(data, "client_id", None)
        room == <<"token", token_address, interval>>
    IN  IF /\ truthy(token_address) /\ truthy(client_id)
           /\ room \in DOMAIN rooms
           /\ InSeq(client_id, rooms[room])
        THEN LET left == list_remove(rooms[room], client_id)
             IN  IF left = <<>>
                 THEN [r \in DOMAIN rooms \ {room} |-> rooms[r]]
                 ELSE [rooms EXCEPT ![room] = left]
        ELSE rooms

\* WebSocketService._max_reconnect_attempts
max_reconnect_attempts == 10

RECURSIVE handle_reconnection(_)
\* _handle_reconnection from a counter value: the (is_connected,
\* _reconnect_attempts) pairs it can end with.  Each attempt counts, sleeps
\* and calls connect_to_backend, which either succeeds (counter reset) or
\* fails and calls _handle_reconnection again.
handle_reconnection(attempts) ==
    IF attempts >= max_reconnect_attempts
    THEN {[is_connected |-> FALSE, reconnect_attempts |-> attempts]}
    ELSE {[is_connected |-> TRUE, reconnect_attempts |-> 0]}
           \cup handle_reconnection(attempts + 1)

\* send_to_backend: the ways it can end, each with the service after it.
\* Not connected: the message is dropped with a warning ("skipped").
\* Connected: the emit succeeds ("ok"), or it raises and the service
\* reconnects ("failed").  No exception leaves the method.
send_to_backend(w, message) ==
    IF ~ w.is_connected
    THEN {[w |-> w, result |-> "skipped"]}
    ELSE {[w |-> [w EXCEPT !.emits = Append(@, message)], result |-> "ok"]}
           \cup {[w |-> [w EXCEPT
                           !.is_connected = r.is_connected,
                           !.reconnect_attempts = r.reconnect_attempts],
                  result |-> "failed"] :
                    r \in handle_reconnection(w.reconnect_attempts)}

\* send_to_room: a room_message is sent only for a room of _rooms that has
\* clients.
send_to_room(w, room, message) ==
    IF room \in DOMAIN w.rooms /\ w.rooms[room] # <<>>
    THEN send_to_backend(w, [event |-> "room_message", room |-> room,
                             data |-> message,
                             client_count |-> Len(w.rooms[room])])
    ELSE {[w |-> w, result |-> "skipped"]}

\* broadcast -> broadcast_to_frontend
broadcast(w, message) ==
    send_to_backend(w, [event |-> "broadcast", room |-> <<>>,
                        data |-> message, client_count |-> 0])

(***************************************************************************)
(* infrastructure/redis/redis_service.py                                   *)
(***************************************************************************)
\* set_json with a ttl, when the server accepts the write.
set_json(r, key, value, ttl) ==
    [r EXCEPT !.cache[key] = <<[value |-> value, ttl |-> ttl]>>]

\* send_event_to_stream, when the server accepts the XADD.
send_event_to_stream(r, event_type, event_data) ==
    [r EXCEPT !.stream = Append(@, [event_type |-> event_type,
                                     data |-> event_data,
                                     source |-> "blockchain_listener"])]

(***************************************************************************)
(* SpecFanOut: the handling of one yielded event after another, from       *)
(* _handle_blockchain_event to the sinks, with the Redis server and the    *)
(* backend socket free to fail at every call and the socket callbacks      *)
(* free to run at every suspension of the handler.                         *)
(***************************************************************************)
\* The events the chain client yields for the logs of block 2 + n.
FanEvents(n) ==
    LET at == [node EXCEPT !.block = 2 + n, !.time = 172830 + 30 * n]
        trade(isBuy, before, after) ==
            LogOf(at, "c1", "Trade",
                  [isBuy |-> isBuy, ethInOrOut |-> 1, tokenDelta |-> 1,
                   priceBefore |-> before, priceAfter |-> after,
                   supplyAfter |-> 5, timestamp |-> at.time])
    IN  {process_factory_event(
             LogOf(at, FactoryAddress, "BondingCurveDeployed",
                   [tokenAddress |-> "t2", curveAddress |-> "c2",
                    creator |-> "creator", name |-> "name",
                    symbol |-> "symbol", timestamp |-> at.time]))}
          \cup {process_curve_event(trade(TRUE, 1, 2))[1],
                process_curve_event(
                    LogOf(at, "c1", "TokensSold",
                          [tokenAmount |-> 1, ethReceived |-> 1,
                           newPrice |-> 1]))[1]}

\* The subscribe_request / unsubscribe_request messages of the backend.
RequestData ==
    {[token_address |-> "t1", client_id |-> c] : c \in Clients}
      \cup {[client_id |-> c] : c \in Clients}
      \cup {[token_address |-> "t1"]}

\* execute with the stream append written before the two live pushes.
execute_next_mut(pc) ==
    CASE pc = "cache" -> "stream"
      [] pc = "stream" -> "room"
      [] pc = "room" -> "backend"
      [] pc = "backend" -> "publish"

\* execute, steps 7 to 11: the statement that follows a sink.
execute_next(pc) ==
    CASE pc = "cache" -> "room"
      [] pc = "room" -> "backend"
      [] pc = "backend" -> "stream"
      [] pc = "stream" -> "publish"

\* _cache_real_time_data without its try/except: the error leaves execute.
on_sink_error_mut(pc) ==
    IF pc = "cache" THEN "raised" ELSE execute_next(pc)

\* Where control goes when the sink at pc raised: each sink method catches
\* Exception, logs it and returns, so execute goes on with its next step.
on_sink_error(pc) == execute_next(pc)

direction_str(trade) == IF trade.is_buy THEN "BUY" ELSE "SELL"

\* The keys add_new_curve reads from the event dict with curve_data[...].
CurveDataKeys ==
    {"token_address", "curve_address", "creator_address", "name", "symbol",
     "total_supply", "current_supply", "current_price", "reserve_balance"}

\* add_new_curve raises KeyError building the BondingCurve.
add_new_curve_raises(curve_data) == ~ (CurveDataKeys \subseteq DOMAIN curve_data)

FanIdle ==
    [pc |-> "idle", event |-> <<>>, trade |-> <<>>, market_data |-> <<>>,
     calls |-> <<>>, outcome |-> [k \in Sinks |-> "none"],
     subscribed |-> FALSE, connected |-> FALSE, xadd_attempts |-> 0]

fanFrame == <<node, curve_contracts, event_filters, sub, handler, workers,
              dispatched, completed>>

\* The dispatch loop takes the next yielded event; _handle_blockchain_event
\* runs up to its first call of a sink.  For a trade that is execute(),
\* steps 1 to 6: the entity, save_trade, the six candles, the bonding curve
\* (get_curve_by_token returns None), the market data, the alerts (the
\* alert service does nothing).
FanDispatch ==
    /\ fan.pc = "idle"
    /\ processed < MaxFanEvents
    /\ \E event \in FanEvents(processed) :
          IF IsTradeEvent(event)
          THEN LET trade == TradeOfEvent(event)
                   token == trade.token_address
                   window == get_trades_in_timerange(token, trade)
               IN  /\ fan' = [FanIdle EXCEPT
                                !.pc = "cache",
                                !.event = <<event>>,
                                !.trade = <<trade>>,
                                !.market_data =
                                    <<update_market_data(trade, window)>>]
                   /\ redis' = [redis EXCEPT
                                  !.trades_stream = save_trade(@, trade)]
                   /\ event_history' =
                        [event_history EXCEPT
                           ![token] =
                              [i \in IntervalIndex |->
                                 @[i] \o update_candle_for_interval(
                                            trade, Intervals[i],
                                            get_latest_candle(token,
                                                              Intervals[i]))]]
          ELSE /\ fan' = [FanIdle EXCEPT !.pc = "curve", !.event = <<event>>]
               /\ UNCHANGED <<redis, event_history>>
    /\ UNCHANGED <<ws, processed>>
    /\ UNCHANGED <<fanFrame, candleVars, statsVars, lifeVars>>

\* Step 7, _cache_real_time_data: trade:latest:<token>, then market:<token>.
\* The server accepts the first n of the two writes; the first refused one
\* raises, which the method catches and logs.
FanCache ==
    /\ fan.pc = "cache"
    /\ \E n \in 0 .. 2 :
          LET trade == fan.trade[1]
              md == fan.market_data[1]
              first == set_json(redis, <<"trade:latest", trade.token_address>>,
                                [price |-> trade.price_after,
                                 volume |-> trade.token_amount,
                                 direction |-> direction_str(trade),
                                 timestamp |-> trade.timestamp],
                                300)
              second == set_json(first, <<"market", trade.token_address>>,
                                 [current_price |-> md.current_price,
                                  price_change_24h |-> md.price_change_24h,
                                  price_change_percent_24h |->
                                      md.price_change_percent_24h,
                                  volume_24h |-> md.volume_eth_24h,
                                  trades_24h |-> md.trades_24h,
                                  market_cap |-> md.market_cap],
                                 60)
          IN  /\ redis' = CASE n = 0 -> redis
                            [] n = 1 -> first
                            [] n = 2 -> second
              /\ fan' = [fan EXCEPT
                           !.calls = Append(@, "cache"),
                           !.outcome["cache"] =
                               IF n = 2 THEN "ok" ELSE "failed",
                           !.pc = IF n = 2
                                  THEN execute_next("cache")
                                  ELSE on_sink_error("cache")]
    /\ UNCHANGED <<ws, processed, event_history>>
    /\ UNCHANGED <<fanFrame, candleVars, statsVars, lifeVars>>

\* The payload of the trade message of steps 8 and 9.
TradeMessage(trade, md) ==
    [type |-> "trade", token_address |-> trade.token_address,
     price |-> trade.price_after, volume |-> trade.token_amount,
     direction |-> direction_str(trade), timestamp |-> trade.timestamp,
     current_price |-> md.current_price,
     price_change_24h |-> md.price_change_percent_24h,
     volume_24h |-> md.volume_eth_24h]

\* Step 8, _broadcast_trade_update: send_to_room for room token:<token>.
FanRoom ==
    /\ fan.pc = "room"
    /\ LET trade == fan.trade[1]
           token == trade.token_address
       IN  \E sent \in send_to_room(ws, <<"token", token>>,
                                    TradeMessage(trade, fan.market_data[1])) :
              /\ ws' = sent.w
              /\ fan' = [fan EXCEPT
                           !.calls = Append(@, "room"),
                           !.outcome["room"] = sent.result,
                           !.subscribed =
                               \E r \in DOMAIN ws.rooms :
                                   r[2] = token /\ ws.rooms[r] # <<>>,
                           !.connected = ws.is_connected,
                           !.pc = execute_next("room")]
    /\ UNCHANGED <<redis, processed, event_history>>
    /\ UNCHANGED <<fanFrame, candleVars, statsVars, lifeVars>>

\* Step 9, _send_to_backend: send_to_backend('trade_update', ...).
FanBackend ==
    /\ fan.pc = "backend"
    /\ LET trade == fan.trade[1]
       IN  \E sent \in send_to_backend(
                           ws, [event |-> "trade_update", room |-> <<>>,
                                data |-> TradeMessage(trade,
                                                      fan.market_data[1]),
                                client_count |-> 0]) :
              /\ ws' = sent.w
              /\ fan' = [fan EXCEPT
                           !.calls = Append(@, "backend"),
                           !.outcome["backend"] = sent.result,
                           !.pc = execute_next("backend")]
    /\ UNCHANGED <<redis, processed, event_history>>
    /\ UNCHANGED <<fanFrame, candleVars, statsVars, lifeVars>>

\* Step 10, _send_to_redis_stream: one send_event_to_stream('Trade', ...);
\* a refused XADD raises, which the method catches and logs.
FanStream ==
    /\ fan.pc = "stream"
    /\ \E ok \in BOOLEAN :
          LET trade == fan.trade[1]
              md == fan.market_data[1]
          IN  /\ redis' =
                   IF ok
                   THEN send_event_to_stream(
                            redis, "Trade",
                            [token_address |-> trade.token_address,
                             curve_address |-> trade.curve_address,
                             direction |-> direction_str(trade),
                             token_amount |-> trade.token_amount,
                             eth_amount |-> trade.eth_amount,
                             price_before |-> trade.price_before,
                             price_after |-> trade.price_after,
                             timestamp |-> trade.timestamp,
                             market_data |-> md])
                   ELSE redis
              /\ fan' = [fan EXCEPT
                           !.calls = Append(@, "stream"),
                           !.xadd_attempts = @ + 1,
                           !.outcome["stream"] =
                               IF ok THEN "ok" ELSE "failed",
                           !.pc = IF ok
                                  THEN execute_next("stream")
                                  ELSE on_sink_error("stream")]
    /\ UNCHANGED <<ws, processed, event_history>>
    /\ UNCHANGED <<fanFrame, candleVars, statsVars, lifeVars>>

\* Step 11 and the return of execute and of _handle_blockchain_event.
FanReturn ==
    /\ fan.pc = "publish"
    /\ processed' = processed + 1
    /\ fan' = FanIdle
    /\ UNCHANGED <<redis, ws, event_history>>
    /\ UNCHANGED <<fanFrame, candleVars, statsVars, lifeVars>>

\* The handler raised: _handle_blockchain_event logs and re-raises, the
\* dispatch loop logs and goes on with the next event.
FanRaise ==
    /\ fan.pc = "raised"
    /\ processed' = processed + 1
    /\ fan' = FanIdle
    /\ UNCHANGED <<redis, ws, event_history>>
    /\ UNCHANGED <<fanFrame, candleVars, statsVars, lifeVars>>

\* ManageBondingCurvesUseCase.add_new_curve for a BondingCurveDeployed
\* event.  Building the BondingCurve raises KeyError when the event lacks a
\* key; otherwise save_curve (stores nothing), the curve:<token> cache
\* write (an error leaves the method), the new_curve broadcast and the
\* stream append (an error is caught and logged).
FanAddNewCurve ==
    /\ fan.pc = "curve"
    /\ LET curve_data == fan.event[1]
       IN  IF add_new_curve_raises(curve_data)
           THEN /\ fan' = [fan EXCEPT !.pc = "raised"]
                /\ UNCHANGED <<redis, ws>>
           ELSE \E cacheOk \in BOOLEAN, streamOk \in BOOLEAN :
                  IF ~ cacheOk
                  THEN /\ fan' = [fan EXCEPT !.pc = "raised",
                                             !.calls = <<"cache">>]
                       /\ UNCHANGED <<redis, ws>>
                  ELSE \E sent \in broadcast(
                                     ws, [type |-> "new_curve",
                                          token_address |->
                                              curve_data.token_address,
                                          name |-> curve_data.name,
                                          symbol |-> curve_data.symbol,
                                          current_price |->
                                              curve_data.current_price]) :
                         LET cached ==
                               set_json(redis,
                                        <<"curve", curve_data.token_address>>,
                                        [token_address |->
                                             curve_data.token_address,
                                         curve_address |->
                                             curve_data.curve_address,
                                         name |-> curve_data.name,
                                         symbol |-> curve_data.symbol,
                                         current_price |->
                                             curve_data.current_price,
                                         is_active |-> TRUE],
                                        3600)
                         IN  /\ redis' =
                                  IF streamOk
                                  THEN send_event_to_stream(
                                           cached, "BondingCurveDeployed",
                                           curve_data)
                                  ELSE cached
                             /\ ws' = sent.w
                             /\ fan' = [fan EXCEPT
                                          !.pc = "publish",
                                          !.calls = <<"cache", "backend",
                                                      "stream">>]
    /\ UNCHANGED <<processed, event_history>>
    /\ UNCHANGED <<fanFrame, candleVars, statsVars, lifeVars>>

\* The backend delivers a subscribe_request message.
FanSubscribeRequest ==
    /\ processed < MaxFanEvents
    /\ \E data \in RequestData :
          ws' = [ws EXCEPT !.rooms = subscribe_request(@, data)]
    /\ UNCHANGED <<fan, redis, processed, event_history>>
    /\ UNCHANGED <<fanFrame, candleVars, statsVars, lifeVars>>

\* The backend delivers an unsubscribe_request message.
FanUnsubscribeRequest ==
    /\ processed < MaxFanEvents
    /\ \E data \in RequestData :
          ws' = [ws EXCEPT !.rooms = unsubscribe_request(@, data)]
    /\ UNCHANGED <<fan, redis, processed, event_history>>
    /\ UNCHANGED <<fanFrame, candleVars, statsVars, lifeVars>>

\* The socket client reports the connection lost (the disconnect callback)
\* or established again (the connect callback).
FanSocketEvent ==
    /\ processed < MaxFanEvents
    /\ ws' = [ws EXCEPT !.is_connected = ~ @]
    /\ UNCHANGED <<fan, redis, processed, event_history>>
    /\ UNCHANGED <<fanFrame, candleVars, statsVars, lifeVars>>

NextFanOut ==
    \/ FanDispatch
    \/ FanCache
    \/ FanRoom
    \/ FanBackend
    \/ FanStream
    \/ FanReturn
    \/ FanRaise
    \/ FanAddNewCurve
    \/ FanSubscribeRequest
    \/ FanUnsubscribeRequest
    \/ FanSocketEvent

SpecFanOut == Init /\ [][NextFanOut]_vars

(***************************************************************************)
(* SpecIngest: the polling loop of subscribe_to_events over arbitrary new  *)
(* entries (any address, any event name, removed or not), the dispatch     *)
(* loop of main.py with the handler as one step, and the disconnect of the *)
(* chain client.  Redis and the backend accept every call here; their      *)
(* failures are followed in SpecFanOut.                                    *)
(***************************************************************************)
\* The entries get_new_entries can return in polling iteration n.
IngestLogs(n) ==
    LET at == [node EXCEPT !.block = 2 + n, !.time = 172830 + 30 * n]
        deployed(factory, curve) ==
            LogOf(at, factory, "BondingCurveDeployed",
                  [tokenAddress |-> "t2", curveAddress |-> curve,
                   creator |-> "creator", name |-> "name",
                   symbol |-> "symbol", timestamp |-> at.time])
        trade(address) ==
            LogOf(at, address, "Trade",
                  [isBuy |-> TRUE, ethInOrOut |-> 1, tokenDelta |-> 1,
                   priceBefore |-> 1, priceAfter |-> 2,
                   supplyAfter |-> 5, timestamp |-> at.time])
        sold == LogOf(at, "c1", "TokensSold",
                      [tokenAmount |-> 1, ethReceived |-> 1, newPrice |-> 1])
        purchased == LogOf(at, "c1", "TokensPurchased",
                           [tokensReceived |-> 3, ethSpent |-> 2,
                            newPrice |-> 2])
        migrated == LogOf(at, "c1", "CurveMigrated", [newPrice |-> 1])
    IN  {deployed("factory", "c2"), deployed("factory_lc", "c2_lc"),
         trade("c1"), trade("c1_lc"), trade("c2"), trade("other"),
         sold, purchased, migrated}
          \cup {[trade("c1") EXCEPT !.removed = TRUE],
                [deployed("factory", "c2") EXCEPT !.removed = TRUE]}
          \cup {[trade("c1") EXCEPT !.transactionHash = h] : h \in HexTexts}

\* _process_log_entry for an entry, rpc_ok telling whether get_block and
\* get_transaction answered; an exception there is logged and the entry
\* yields nothing.
ProcessEntry(contracts, log, rpc_ok) ==
    IF rpc_ok
    THEN process_log_entry(contracts, log)
    ELSE [contracts |-> contracts, event |-> <<>>]

\* The cache value of trade:latest:<token>.
LatestTradeValue(trade) ==
    [price |-> trade.price_after, volume |-> trade.token_amount,
     direction |-> direction_str(trade), timestamp |-> trade.timestamp]

\* The cache value of market:<token>.
MarketValue(md) ==
    [current_price |-> md.current_price,
     price_change_24h |-> md.price_change_24h,
     price_change_percent_24h |-> md.price_change_percent_24h,
     volume_24h |-> md.volume_eth_24h,
     trades_24h |-> md.trades_24h,
     market_cap |-> md.market_cap]

\* The stream record of a trade.
StreamTradeData(trade, md) ==
    [token_address |-> trade.token_address,
     curve_address |-> trade.curve_address,
     direction |-> direction_str(trade),
     token_amount |-> trade.token_amount,
     eth_amount |-> trade.eth_amount,
     price_before |-> trade.price_before,
     price_after |-> trade.price_after,
     timestamp |-> trade.timestamp,
     market_data |-> md]

\* Steps 2 to 10 of execute for a trade, every sink accepting its call:
\* the candle events published, the cache, the socket, the stream.
execute_steps(h, r, w, trade) ==
    LET token == trade.token_address
        md == update_market_data(trade, get_trades_in_timerange(token, trade))
        saved == [r EXCEPT !.trades_stream = save_trade(@, trade)]
        candles == [h EXCEPT
                      ![token] =
                         [i \in IntervalIndex |->
                            @[i] \o update_candle_for_interval(
                                       trade, Intervals[i],
                                       get_latest_candle(token,
                                                         Intervals[i]))]]
        cached == set_json(set_json(saved, <<"trade:latest", token>>,
                                    LatestTradeValue(trade), 300),
                           <<"market", token>>, MarketValue(md), 60)
        message == TradeMessage(trade, md)
    IN  {[raised |-> FALSE, event_history |-> candles,
          redis |-> send_event_to_stream(cached, "Trade",
                                         StreamTradeData(trade, md)),
          ws |-> backend.w] :
            backend \in
              UNION {{b \in send_to_backend(
                               room.w, [event |-> "trade_update",
                                        room |-> <<>>, data |-> message,
                                        client_count |-> 0]) :
                        b.result # "failed"} :
                     room \in {x \in send_to_room(w, <<"token", token>>,
                                                   message) :
                                 x.result # "failed"}}}

\* execute that builds the entity after the candles, the cache, the pushes
\* and the stream record have been written from the raw fields.
execute_mut(h, r, w, raw_event) ==
    IF create_trade_raises(raw_event)
    THEN {[o EXCEPT !.raised = TRUE] :
            o \in execute_steps(h, r, w,
                                create_trade_from_raw_event(raw_event))}
    ELSE execute_steps(h, r, w, create_trade_from_raw_event(raw_event))

\* ProcessTradeEventUseCase.execute: step 1 builds the entity and raises
\* before anything is written when a value object rejects its field.
execute(h, r, w, raw_event) ==
    IF create_trade_raises(raw_event)
    THEN {[raised |-> TRUE, event_history |-> h, redis |-> r, ws |-> w]}
    ELSE execute_steps(h, r, w, create_trade_from_raw_event(raw_event))

\* _handle_blockchain_event: the ways the handling of one event can end.
handle_blockchain_event(h, r, w, event) ==
    IF IsTradeEvent(event)
    THEN execute(h, r, w, convert_to_trade_event(event))
    ELSE IF event.event_type = "BondingCurveDeployed"
    THEN IF add_new_curve_raises(event)
         THEN {[raised |-> TRUE, event_history |-> h, redis |-> r, ws |-> w]}
         ELSE {[raised |-> FALSE, event_history |-> h,
                redis |-> send_event_to_stream(
                              set_json(r, <<"curve", event.token_address>>,
                                       event, 3600),
                              "BondingCurveDeployed", event),
                ws |-> b.w] :
                  b \in {x \in broadcast(w, [type |-> "new_curve"]) :
                           x.result # "failed"}}
    ELSE {[raised |-> FALSE, event_history |-> h, redis |-> r, ws |-> w]}

\* _process_blockchain_events whose except clause ends the loop.
on_handler_error_mut(loop) == "terminated"

\* _process_blockchain_events, the except clause around the handler: the
\* error is logged and the loop continues with the next event.
on_handler_error(loop) == loop

\* BlockchainService.disconnect that also forgets the curve contracts.
disconnect_mut(c, contracts) ==
    {[client |-> [c EXCEPT !.w3 = FALSE, !.is_connected = FALSE],
      curve_contracts |-> <<>>, event_filters |-> <<>>]}

\* BlockchainService.disconnect: the filters are uninstalled (errors
\* ignored) and the list cleared; then the provider is closed and the
\* flag and the provider are reset, unless the close raises, which is
\* logged.  _curve_contracts is not touched.
disconnect(c, contracts) ==
    {[client |-> [c EXCEPT !.w3 = FALSE, !.is_connected = FALSE],
      curve_contracts |-> contracts, event_filters |-> <<>>]}
      \cup (IF c.w3
            THEN {[client |-> c, curve_contracts |-> contracts,
                   event_filters |-> <<>>]}
            ELSE {})

ingestFrame == <<node, sub, handler, workers, dispatched,
                 completed, candleVars, statsVars, fan, processed,
                 listener, boot, unitVars>>

\* One polling iteration in which get_new_entries returns one new entry:
\* it goes through _process_log_entry and the event, if any, is yielded.
IngestPoll ==
    /\ ingest.pc = "poll"
    /\ ingest.loop = "running"
    /\ client.is_connected
    /\ ingest.polls < MaxPolls
    /\ \E log \in IngestLogs(ingest.polls), rpc_ok \in BOOLEAN :
          LET r == ProcessEntry(curve_contracts, log, rpc_ok)
          IN  /\ curve_contracts' = r.contracts
              /\ ingest' = [ingest EXCEPT
                              !.polls = @ + 1,
                              !.entries =
                                  <<[log |-> log, rpc_ok |-> rpc_ok,
                                     known |-> InSeq(log.address,
                                                     curve_contracts),
                                     event |-> r.event]>>,
                              !.queue = r.event,
                              !.yielded = @ + Len(r.event),
                              !.added =
                                  IF /\ r.event # <<>>
                                     /\ r.event[1].event_type
                                          = "BondingCurveDeployed"
                                  THEN Append(@, log.args.curveAddress)
                                  ELSE @,
                              !.pc = IF r.event = <<>> THEN "poll"
                                                       ELSE "yield"]
    /\ UNCHANGED <<client, event_filters, event_history, redis, ws>>
    /\ UNCHANGED ingestFrame

\* The dispatch loop receives the next yielded event and awaits
\* _handle_blockchain_event; an exception of the handler is logged.
IngestDispatch ==
    /\ ingest.pc = "yield"
    /\ ingest.loop = "running"
    /\ ingest.queue # <<>>
    /\ \E out \in handle_blockchain_event(event_history, redis, ws,
                                          Head(ingest.queue)) :
          /\ event_history' = out.event_history
          /\ redis' = out.redis
          /\ ws' = out.ws
          /\ ingest' = [ingest EXCEPT
                          !.queue = Tail(@),
                          !.handled = @ + 1,
                          !.raised = IF out.raised THEN @ + 1 ELSE @,
                          !.after_raise =
                              IF ingest.raised > 0 THEN @ + 1 ELSE @,
                          !.loop = IF out.raised
                                   THEN on_handler_error(@)
                                   ELSE @,
                          !.pc = IF Tail(ingest.queue) = <<>>
                                 THEN "poll" ELSE "yield"]
    /\ UNCHANGED <<client, curve_contracts, event_filters>>
    /\ UNCHANGED ingestFrame

\* _cleanup calls BlockchainService.disconnect while the generator sleeps
\* between two iterations.
IngestDisconnect ==
    /\ ingest.pc = "poll"
    /\ ~ ingest.disconnected
    /\ \E d \in disconnect(client, curve_contracts) :
          /\ client' = d.client
          /\ curve_contracts' = d.curve_contracts
          /\ event_filters' = d.event_filters
    /\ ingest' = [ingest EXCEPT !.disconnected = TRUE]
    /\ UNCHANGED <<event_history, redis, ws>>
    /\ UNCHANGED ingestFrame

NextIngest == IngestPoll \/ IngestDispatch \/ IngestDisconnect

SpecIngest == Init /\ [][NextIngest]_vars

(***************************************************************************)
(* SpecMain: main() of main.py, from BlockchainListener() through          *)
(* initialize() to start() or to the exit, with the Redis server, the      *)
(* backend and the chain node reachable or not.                            *)
(***************************************************************************)
\* BlockchainSettings.chain_id (default)
chain_id == 31337

\* The chain ids a node can report: the configured one and another.
NodeChainIds == {chain_id, 1}

\* BlockchainService.__init__
NewClient ==
    [w3 |-> FALSE, is_connected |-> FALSE, reconnect_attempts |-> 0,
     last_block_number |-> 0, link |-> FALSE]

\* WebSocketService.__init__
NewWebSocket ==
    [is_connected |-> FALSE, reconnect_attempts |-> 0, rooms |-> <<>>,
     emits |-> <<>>]

\* What a node answers during connect(): whether the WebSocket opens, its
\* chain id and tip, whether the factory answers getAllTokens.
Nodes ==
    [reachable : BOOLEAN, chain_id : NodeChainIds, latest_block : {1, 2},
     factory_ok : BOOLEAN]

RECURSIVE discover_existing_curves(_, _)
\* _discover_existing_curves: every deployed curve through
\* _add_curve_contract.
discover_existing_curves(contracts, deployed_curves) ==
    IF deployed_curves = <<>>
    THEN contracts
    ELSE discover_existing_curves(
             add_curve_contract(contracts, Head(deployed_curves)),
             Tail(deployed_curves))

\* _test_connection against node n: the latest block number is cached and
\* the chain id is compared with the configured one; a difference is
\* logged as a warning and nothing is raised.
test_connection(c, n) ==
    [client |-> [c EXCEPT !.last_block_number = n.latest_block],
     warned |-> n.chain_id # chain_id,
     raised |-> FALSE]

\* BlockchainService.connect against node n: the client and the registry
\* after it, and whether it raised.  A failing factory set-up is a warning.
connect(c, contracts, n) ==
    LET created == [c EXCEPT !.w3 = TRUE, !.link = n.reachable]
        t == test_connection(created, n)
    IN  IF ~ n.reachable \/ t.raised
        THEN [client |-> [created EXCEPT !.is_connected = FALSE],
              curve_contracts |-> contracts, raised |-> TRUE]
        ELSE [client |-> [t.client EXCEPT !.is_connected = TRUE,
                                          !.reconnect_attempts = 0],
              curve_contracts |->
                  IF n.factory_ok
                  THEN discover_existing_curves(contracts, InitialCurves)
                  ELSE contracts,
              raised |-> FALSE]

\* BlockchainService.is_connected(): a get_block probe; a failed probe
\* lowers the flag.
is_connected(c) ==
    IF ~ c.is_connected \/ ~ c.w3
    THEN [client |-> c, result |-> FALSE]
    ELSE IF c.link
    THEN [client |-> c, result |-> TRUE]
    ELSE [client |-> [c EXCEPT !.is_connected = FALSE], result |-> FALSE]

\* WebSocketService.connect_to_backend: the services it can end with.  A
\* failed connect goes through _handle_reconnection and never raises.
connect_to_backend(w) ==
    {[w EXCEPT !.is_connected = TRUE, !.reconnect_attempts = 0]}
      \cup {[w EXCEPT !.is_connected = r.is_connected,
                      !.reconnect_attempts = r.reconnect_attempts] :
               r \in handle_reconnection(w.reconnect_attempts)}

\* WebSocketService.disconnect (stop_server): the flag is lowered unless
\* the socket's disconnect raises, which is logged.
ws_disconnect(w) ==
    {[w EXCEPT !.is_connected = FALSE]}
      \cup (IF w.is_connected THEN {w} ELSE {})

\* RedisService.disconnect: the flag is lowered unless closing the pool
\* raises, which is logged.
redis_disconnect(rs) ==
    {[rs EXCEPT !.is_connected = FALSE]}
      \cup (IF rs.pool THEN {rs} ELSE {})

\* The parameters of ProcessTradeEventUseCase.__init__ after self.
ProcessTradeEventUseCase_params ==
    <<"trade_repo", "candle_repo", "curve_repo", "market_data_repo",
      "cache_service", "websocket_service", "alert_service",
      "redis_service">>

\* The positional arguments _initialize_use_cases passes to it.
process_trade_use_case_args ==
    <<"trade_repo", "candle_repo", "curve_repo", "market_data_repo",
      "redis_service", "websocket_service", "alert_service">>

\* A call with positional arguments raises TypeError when a parameter
\* without default is left without argument.
call_raises(params, args) == Len(args) # Len(params)

bootFrame == <<node, event_filters, sub, handler, workers, event_history,
               dispatched, completed, candleVars, statsVars, fan, redis,
               processed, ingest, listener, unitVars>>

\* initialize() step 1, _initialize_redis: connect (ping) and health
\* check; either failing raises out of initialize().
BootRedis ==
    /\ boot.pc = "redis"
    /\ \E ok \in BOOLEAN :
          boot' = [boot EXCEPT
                     !.redis_ok = ok,
                     !.redis_service = <<[pool |-> TRUE,
                                          is_connected |-> ok]>>,
                     !.pc = IF ok THEN "websocket" ELSE "fatal"]
    /\ UNCHANGED <<client, curve_contracts, ws>>
    /\ UNCHANGED bootFrame

\* Step 2, _initialize_websocket: the mock service in the development
\* environment, else connect_to_backend and then start_server, which
\* calls connect_to_backend again.  Neither raises.
BootWebsocket ==
    /\ boot.pc = "websocket"
    /\ \/ /\ boot' = [boot EXCEPT !.websocket_service = "mock",
                                  !.backend_ok = TRUE,
                                  !.pc = "blockchain"]
          /\ UNCHANGED ws
       \/ \E first \in connect_to_backend(NewWebSocket) :
          \E second \in connect_to_backend(first) :
             /\ ws' = second
             /\ boot' = [boot EXCEPT
                          !.websocket_service = "real",
                          !.backend_ok = first.is_connected
                                           /\ second.is_connected,
                          !.pc = "blockchain"]
    /\ UNCHANGED <<client, curve_contracts>>
    /\ UNCHANGED bootFrame

\* Step 3, _initialize_blockchain: connect(), then the health check,
\* whose is_connected() probe may fail; either failing raises.
BootBlockchain ==
    /\ boot.pc = "blockchain"
    /\ \E n \in Nodes, probe \in BOOLEAN :
          LET r == connect(NewClient, <<>>, n)
              h == is_connected([r.client EXCEPT !.link = probe])
          IN  /\ client' = IF r.raised THEN r.client ELSE h.client
              /\ curve_contracts' = r.curve_contracts
              /\ boot' = [boot EXCEPT
                            !.blockchain_service = TRUE,
                            !.node_ok = ~ r.raised /\ h.result,
                            !.node_chain_id = n.chain_id,
                            !.connect_returned = ~ r.raised,
                            !.pc = IF ~ r.raised /\ h.result
                                   THEN "use_cases" ELSE "fatal"]
    /\ UNCHANGED ws
    /\ UNCHANGED bootFrame

\* Steps 4 to 6: the repositories, the application services and the use
\* cases are constructed; a constructor call that raises ends
\* initialize().  After initialize(), start() launches the four tasks.
BootUseCases ==
    /\ boot.pc = "use_cases"
    /\ boot' = IF call_raises(ProcessTradeEventUseCase_params,
                              process_trade_use_case_args)
               THEN [boot EXCEPT !.pc = "fatal"]
               ELSE [boot EXCEPT !.use_cases = TRUE, !.tasks = TRUE,
                                 !.pc = "started"]
    /\ UNCHANGED <<client, curve_contracts, ws>>
    /\ UNCHANGED bootFrame

\* initialize() raised: main() logs the fatal error and calls
\* sys.exit(1); its finally clause awaits listener.shutdown(), whose
\* _cleanup stops the services that exist; the process exits with 1.
BootFatal ==
    /\ boot.pc = "fatal"
    /\ \E w \in (IF boot.websocket_service = "real"
                 THEN ws_disconnect(ws) ELSE {ws}),
          d \in (IF boot.blockchain_service
                 THEN disconnect(client, curve_contracts)
                 ELSE {[client |-> client,
                        curve_contracts |-> curve_contracts,
                        event_filters |-> event_filters]}),
          rs \in (IF boot.redis_service # <<>>
                  THEN {<<x>> : x \in redis_disconnect(boot.redis_service[1])}
                  ELSE {<<>>}) :
          /\ ws' = w
          /\ client' = d.client
          /\ curve_contracts' = d.curve_contracts
          /\ boot' = [boot EXCEPT !.redis_service = rs,
                                  !.exit_status = 1,
                                  !.pc = "exited"]
    /\ UNCHANGED bootFrame

NextMain ==
    \/ BootRedis
    \/ BootWebsocket
    \/ BootBlockchain
    \/ BootUseCases
    \/ BootFatal

\* The state when main() starts: the services are not built, nothing is
\* connected and the registry is empty.
InitMain ==
    /\ node = [block |-> 1, logIndex |-> 0, time |-> 172800,
               price |-> [c \in Curves |-> 1],
               deployed |-> {InitialCurves[k] : k \in 1 .. Len(InitialCurves)},
               pending |-> <<>>,
               emitted |-> 0]
    /\ curve_contracts = <<>>
    /\ event_filters = <<>>
    /\ sub = [pc |-> "init", idx |-> 1, events |-> <<>>]
    /\ handler = [pc |-> "idle", trade |-> <<>>]
    /\ workers = InitWorkers
    /\ event_history = [t \in Tokens |-> [i \in IntervalIndex |-> <<>>]]
    /\ dispatched = <<>>
    /\ completed = 0
    /\ InitCandle
    /\ fan = [pc |-> "idle", event |-> <<>>, trade |-> <<>>,
              market_data |-> <<>>, calls |-> <<>>,
              outcome |-> [k \in Sinks |-> "none"],
              subscribed |-> FALSE, connected |-> FALSE,
              xadd_attempts |-> 0]
    /\ redis = [cache |-> [k \in CacheKeys |-> <<>>],
                trades_stream |-> [t \in Tokens |-> {}],
                stream |-> <<>>]
    /\ ws = NewWebSocket
    /\ processed = 0
    /\ InitStats
    /\ client = NewClient
    /\ ingest = [pc |-> "poll", polls |-> 0, entries |-> <<>>,
                 queue |-> <<>>, yielded |-> 0, handled |-> 0,
                 raised |-> 0, after_raise |-> 0, loop |-> "running",
                 added |-> <<>>, disconnected |-> FALSE]
    /\ InitSupervisor
    /\ InitBoot
    /\ InitUnit

SpecMain == InitMain /\ [][NextMain]_vars

(***************************************************************************)
(* SpecSupervisor: BlockchainListener.start with its four tasks, the       *)
(* signal handler's shutdown task and the finally clause of main(), with   *)
(* the node link going down and up.                                        *)
(***************************************************************************)
\* A task that has returned, raised or been cancelled.
Stopped(l, t) == l.task[t] \in {"done", "failed", "cancelled"}

\* RedisService._ensure_connection: connect() when the flag is down; a
\* failed connect leaves it down.
ensure_connection(rs) ==
    IF rs.is_connected
    THEN {rs}
    ELSE {[rs EXCEPT !.pool = TRUE, !.is_connected = TRUE], rs}

\* _cleanup: stop_server, the chain client's disconnect and the Redis
\* disconnect, each logging its own errors, so all three always run.
cleanup(w, c, contracts, rs) ==
    {[ws |-> x, client |-> d.client, curve_contracts |-> d.curve_contracts,
      event_filters |-> d.event_filters, redis_service |-> y] :
        x \in ws_disconnect(w), d \in disconnect(c, contracts),
        y \in redis_disconnect(rs)}

\* CancelledError thrown into the health monitor at the await it is
\* suspended in.  Inside is_connected() the bare except around get_block
\* catches it: the flag is lowered, False is returned and the monitor goes
\* on to the WebSocket check.  Anywhere else it ends the task.
cancel_health_monitor(c, position) ==
    IF position = "get_block"
    THEN [client |-> [c EXCEPT !.is_connected = FALSE],
          position |-> "websocket"]
    ELSE [client |-> c, position |-> "cancelled"]

supFrame == <<node, sub, handler, workers, event_history, dispatched,
              completed, candleVars, statsVars, fan, redis, processed,
              ingest, boot, unitVars>>

\* blockchain_events, first step: subscribe_to_events raises when the
\* client is not connected or _setup_event_filters raises; otherwise the
\* filters are installed and polling starts.
EventsSubscribe ==
    /\ listener.task["blockchain_events"] = "subscribe"
    /\ \/ /\ client.is_connected /\ client.w3 /\ client.link
          /\ event_filters' = setup_event_filters(event_filters,
                                                  curve_contracts)
          /\ listener' = [listener EXCEPT
                            !.task["blockchain_events"] = "polling"]
       \/ /\ ~ (client.is_connected /\ client.w3 /\ client.link)
          /\ event_filters' = event_filters
          /\ listener' = [listener EXCEPT
                            !.task["blockchain_events"] = "failed"]
    /\ UNCHANGED <<client, curve_contracts, ws>>
    /\ UNCHANGED supFrame

\* blockchain_events, one iteration of `while self._is_connected`: with
\* the flag down the generator ends and the task returns.  Otherwise the
\* filters are polled: with the link down every get_new_entries raises,
\* which is logged per filter; an event yielded after _running was cleared
\* breaks the loop.  _reconnect_attempts is not changed and connect() is
\* not called.
EventsPoll ==
    /\ listener.task["blockchain_events"] = "polling"
    /\ IF ~ client.is_connected
       THEN listener' = [listener EXCEPT
                           !.task["blockchain_events"] = "done"]
       ELSE \E has_event \in BOOLEAN :
               listener' = [listener EXCEPT
                   !.last_poll = IF client.link THEN "ok" ELSE "error",
                   !.task["blockchain_events"] =
                       IF client.link /\ has_event /\ ~ listener.running
                       THEN "done" ELSE @]
    /\ UNCHANGED <<client, curve_contracts, event_filters, ws>>
    /\ UNCHANGED supFrame

\* periodic_cleanup: cleanup_old_data and _log_system_stats, whose Redis
\* calls go through _ensure_connection; then the one-hour sleep.
CleanupWork ==
    /\ listener.task["periodic_cleanup"] = "working"
    /\ \E rs \in ensure_connection(listener.redis_service) :
          listener' = [listener EXCEPT
                          !.redis_service = rs,
                          !.task["periodic_cleanup"] = "sleeping"]
    /\ UNCHANGED <<client, curve_contracts, event_filters, ws>>
    /\ UNCHANGED supFrame

\* health_monitor: the Redis health check returns; the chain client's
\* health check calls is_connected(), which returns False at once with the
\* flag down and otherwise awaits get_block.
HealthRedis ==
    /\ listener.task["health_monitor"] = "redis"
    /\ \E rs \in ensure_connection(listener.redis_service) :
          listener' = [listener EXCEPT
                          !.redis_service = rs,
                          !.task["health_monitor"] =
                              IF client.is_connected /\ client.w3
                              THEN "get_block" ELSE "websocket"]
    /\ UNCHANGED <<client, curve_contracts, event_filters, ws>>
    /\ UNCHANGED supFrame

\* health_monitor: get_block answers or raises; is_connected() lowers the
\* flag when it raises.
HealthProbe ==
    /\ listener.task["health_monitor"] = "get_block"
    /\ client' = is_connected(client).client
    /\ listener' = [listener EXCEPT !.task["health_monitor"] = "websocket"]
    /\ UNCHANGED <<curve_contracts, event_filters, ws>>
    /\ UNCHANGED supFrame

\* health_monitor: the WebSocket health check pings the backend when the
\* service is connected; then the 30 s sleep.
HealthWebsocket ==
    /\ listener.task["health_monitor"] = "websocket"
    /\ \E sent \in send_to_backend(ws, [event |-> "ping", room |-> <<>>,
                                        data |-> <<>>,
                                        client_count |-> 0]) :
          ws' = IF ws.is_connected THEN sent.w ELSE ws
    /\ listener' = [listener EXCEPT !.task["health_monitor"] = "sleeping"]
    /\ UNCHANGED <<client, curve_contracts, event_filters>>
    /\ UNCHANGED supFrame

\* health_monitor: the sleep is over; `while self._running` starts the
\* next round or ends the task.
HealthWake ==
    /\ listener.task["health_monitor"] = "sleeping"
    /\ listener.running => listener.checks < MaxTicks
    /\ listener' = [listener EXCEPT
                      !.checks = IF listener.running THEN @ + 1 ELSE @,
                      !.task["health_monitor"] =
                          IF listener.running THEN "redis" ELSE "done"]
    /\ UNCHANGED <<client, curve_contracts, event_filters, ws>>
    /\ UNCHANGED supFrame

\* SIGINT or SIGTERM: the handler creates the task listener.shutdown(),
\* which clears _running and sets the shutdown event before its _cleanup.
Signal ==
    /\ ~ listener.signalled
    /\ listener.exit_status = -1
    /\ listener' = [listener EXCEPT !.signalled = TRUE,
                                    !.running = FALSE,
                                    !.shutdown_event = TRUE,
                                    !.shutdown_task = "cleanup"]
    /\ UNCHANGED <<client, curve_contracts, event_filters, ws>>
    /\ UNCHANGED supFrame

\* The shutdown task's _cleanup.
ShutdownCleanup ==
    /\ listener.shutdown_task = "cleanup"
    /\ \E r \in cleanup(ws, client, curve_contracts,
                        listener.redis_service) :
          /\ ws' = r.ws
          /\ client' = r.client
          /\ curve_contracts' = r.curve_contracts
          /\ event_filters' = r.event_filters
          /\ listener' = [listener EXCEPT !.redis_service = r.redis_service,
                                          !.shutdown_task = "done"]
    /\ UNCHANGED supFrame

\* shutdown_waiter: _shutdown_event.wait() returns.
WaiterWake ==
    /\ listener.task["shutdown_waiter"] = "waiting"
    /\ listener.shutdown_event
    /\ listener' = [listener EXCEPT !.task["shutdown_waiter"] = "done"]
    /\ UNCHANGED <<client, curve_contracts, event_filters, ws>>
    /\ UNCHANGED supFrame

\* _run_event_loop: asyncio.wait(FIRST_COMPLETED) returns once a task has
\* returned or raised; the others are pending.
SupWake ==
    /\ listener.sup = "waiting"
    /\ \E t \in Tasks : Stopped(listener, t)
    /\ listener' = [listener EXCEPT
                      !.sup = "cancelling",
                      !.pending = {t \in Tasks : ~ Stopped(listener, t)}]
    /\ UNCHANGED <<client, curve_contracts, event_filters, ws>>
    /\ UNCHANGED supFrame

\* _run_event_loop: task.cancel() for one pending task, then `await task`.
\* The cancellation ends the task at its await, except in the health
\* monitor's get_block.
SupCancel ==
    /\ listener.sup = "cancelling"
    /\ listener.awaiting = "none"
    /\ \E t \in listener.pending :
          IF Stopped(listener, t)
          THEN /\ listener' = [listener EXCEPT !.pending = @ \ {t}]
               /\ UNCHANGED client
          ELSE IF t = "health_monitor"
          THEN LET r == cancel_health_monitor(client, listener.task[t])
               IN  /\ client' = r.client
                   /\ listener' = [listener EXCEPT
                          !.cancelled = @ \cup {t},
                          !.task[t] = r.position,
                          !.awaiting = IF r.position = "cancelled"
                                       THEN "none" ELSE t,
                          !.pending = IF r.position = "cancelled"
                                      THEN @ \ {t} ELSE @]
          ELSE /\ listener' = [listener EXCEPT
                                  !.cancelled = @ \cup {t},
                                  !.task[t] = "cancelled",
                                  !.pending = @ \ {t}]
               /\ UNCHANGED client
    /\ UNCHANGED <<curve_contracts, event_filters, ws>>
    /\ UNCHANGED supFrame

\* _run_event_loop: `await task` returns because the awaited task has
\* ended by itself.
SupAwaited ==
    /\ listener.sup = "cancelling"
    /\ listener.awaiting # "none"
    /\ Stopped(listener, listener.awaiting)
    /\ listener' = [listener EXCEPT !.pending = @ \ {listener.awaiting},
                                    !.awaiting = "none"]
    /\ UNCHANGED <<client, curve_contracts, event_filters, ws>>
    /\ UNCHANGED supFrame

\* _run_event_loop is through with the pending tasks: the exception of a
\* failed task is re-raised; the finally clause of start() runs _cleanup.
SupFinish ==
    /\ listener.sup = "cancelling"
    /\ listener.awaiting = "none"
    /\ listener.pending = {}
    /\ \E r \in cleanup(ws, client, curve_contracts,
                        listener.redis_service) :
          /\ ws' = r.ws
          /\ client' = r.client
          /\ curve_contracts' = r.curve_contracts
          /\ event_filters' = r.event_filters
          /\ listener' = [listener EXCEPT
                 !.redis_service = r.redis_service,
                 !.teardowns = @ + 1,
                 !.sup = IF \E t \in Tasks : listener.task[t] = "failed"
                         THEN "raised" ELSE "returned"]
    /\ UNCHANGED supFrame

\* main(): start() has returned (status 0) or raised (sys.exit(1)); the
\* finally clause awaits listener.shutdown().
MainFinally ==
    /\ listener.sup \in {"returned", "raised"}
    /\ listener.exit_status = -1
    /\ \E r \in cleanup(ws, client, curve_contracts,
                        listener.redis_service) :
          /\ ws' = r.ws
          /\ client' = r.client
          /\ curve_contracts' = r.curve_contracts
          /\ event_filters' = r.event_filters
          /\ listener' = [listener EXCEPT
                 !.running = FALSE,
                 !.shutdown_event = TRUE,
                 !.redis_service = r.redis_service,
                 !.teardowns = @ + 1,
                 !.exit_status = IF listener.sup = "raised" THEN 1 ELSE 0]
    /\ UNCHANGED supFrame

\* The WebSocket link to the node goes down.
LinkDown ==
    /\ client.link
    /\ listener.ticks < MaxTicks
    /\ listener.exit_status = -1
    /\ client' = [client EXCEPT !.link = FALSE]
    /\ listener' = [listener EXCEPT
                      !.ticks = @ + 1,
                      !.lost = @ \/ listener.task["blockchain_events"]
                                      = "polling"]
    /\ UNCHANGED <<curve_contracts, event_filters, ws>>
    /\ UNCHANGED supFrame

\* The node is reachable again.
LinkUp ==
    /\ ~ client.link
    /\ listener.exit_status = -1
    /\ client' = [client EXCEPT !.link = TRUE]
    /\ UNCHANGED listener
    /\ UNCHANGED <<curve_contracts, event_filters, ws>>
    /\ UNCHANGED supFrame

NextSupervisor ==
    \/ EventsSubscribe
    \/ EventsPoll
    \/ CleanupWork
    \/ HealthRedis
    \/ HealthProbe
    \/ HealthWebsocket
    \/ HealthWake
    \/ Signal
    \/ ShutdownCleanup
    \/ WaiterWake
    \/ SupWake
    \/ SupCancel
    \/ SupAwaited
    \/ SupFinish
    \/ MainFinally
    \/ LinkDown
    \/ LinkUp

SpecSupervisor == Init /\ [][NextSupervisor]_vars

(***************************************************************************)
(* SpecExecute: ProcessTradeEventUseCase.execute followed statement by     *)
(* statement for one trade.  The use case reaches the candle store and the *)
(* alert service through ICandleRepository and IAlertService; a call of    *)
(* either port may raise.  (The implementations main.py wires in,          *)
(* RedisCandleRepository and AlertService, are placeholders whose methods  *)
(* do nothing.)  Steps 7 to 10 are the sink actions of SpecFanOut.         *)
(***************************************************************************)
\* The default of is_large_trade's threshold_eth, Decimal('1.0') ETH, in
\* units of 10^-6.
threshold_eth == 1000000

\* The events execute() is called with: a small buy, a buy of exactly the
\* large-trade threshold, a sale.
ExecEvents ==
    LET at == [node EXCEPT !.block = 2, !.time = 172830]
        trade(isBuy, eth, before, after) ==
            LogOf(at, "c1", "Trade",
                  [isBuy |-> isBuy, ethInOrOut |-> eth, tokenDelta |-> 1,
                   priceBefore |-> before, priceAfter |-> after,
                   supplyAfter |-> 5, timestamp |-> at.time])
    IN  {process_curve_event(trade(TRUE, 1, 1, 2))[1],
         process_curve_event(trade(TRUE, threshold_eth, 1, 2))[1],
         process_curve_event(trade(FALSE, threshold_eth - 1, 2, 1))[1]}

\* TradeEvent.is_large_trade with its default threshold.
is_large_trade(trade) == trade.eth_amount >= threshold_eth

\* The sets of intervals whose save_candle call raises for one trade.
FailingIntervals ==
    {S \in SUBSET IntervalIndex : Cardinality(S) <= MaxFailing}

\* The calls of the alert service that can raise in _check_and_send_alerts.
AlertFailures(trade) ==
    {"none", "check_price_alerts"}
      \cup (IF is_large_trade(trade) THEN {"send_alert"} ELSE {})

\* execute with a bare gather over tasks that do not catch: the first
\* exception of a task leaves execute.
after_gather_mut(failed) == IF failed = {} THEN "market" ELSE "raised"

\* Where execute goes after step 3: every task catches Exception and logs,
\* and gather is called with return_exceptions=True, so step 4 follows
\* whatever the tasks did.
after_gather(failed) == "market"

\* _check_and_send_alerts without its try/except.
after_alerts_mut(failure) == IF failure = "none" THEN "sinks" ELSE "raised"

\* Where execute goes after step 6: _check_and_send_alerts catches
\* Exception and logs, so step 7 follows.
after_alerts(failure) == "sinks"

execFrame == <<fanFrame, candleVars, statsVars, client, ingest, listener,
               boot, floor_case, sweep, backend_socket>>

\* Steps 1 and 2: the entity is built (a rejected field raises) and handed
\* to save_trade.
ExecStart ==
    /\ run.pc = "idle"
    /\ fan.pc = "idle"
    /\ \E event \in ExecEvents :
          LET raw_event == convert_to_trade_event(event)
          IN  IF create_trade_raises(raw_event)
              THEN /\ run' = [run EXCEPT !.pc = "raised"]
                   /\ UNCHANGED redis
              ELSE LET trade == create_trade_from_raw_event(raw_event)
                   IN  /\ run' = [run EXCEPT !.pc = "candles",
                                             !.event = <<event>>,
                                             !.trade = <<trade>>]
                       /\ redis' = [redis EXCEPT
                                      !.trades_stream = save_trade(@, trade)]
    /\ UNCHANGED <<fan, ws, processed, event_history>>
    /\ UNCHANGED execFrame

\* Step 3: the six _update_candle_for_interval tasks under asyncio.gather.
\* A task whose save_candle raises publishes no event; the other tasks
\* publish theirs.
ExecCandles ==
    /\ run.pc = "candles"
    /\ \E failed \in FailingIntervals :
          LET trade == run.trade[1]
              token == trade.token_address
          IN  /\ event_history' =
                   [event_history EXCEPT
                      ![token] =
                         [i \in IntervalIndex |->
                            IF i \in failed
                            THEN @[i]
                            ELSE @[i] \o update_candle_for_interval(
                                             trade, Intervals[i],
                                             get_latest_candle(
                                                 token, Intervals[i]))]]
              /\ run' = [run EXCEPT !.pc = after_gather(failed),
                                    !.candle_errors = failed,
                                    !.steps = Append(@, "candles")]
    /\ UNCHANGED <<fan, redis, ws, processed>>
    /\ UNCHANGED execFrame

\* Steps 4 and 5: _update_bonding_curve (get_curve_by_token returns None)
\* and _update_market_data.
ExecMarket ==
    /\ run.pc = "market"
    /\ LET trade == run.trade[1]
           window == get_trades_in_timerange(trade.token_address, trade)
       IN  run' = [run EXCEPT !.pc = "alerts",
                              !.market_data =
                                  <<update_market_data(trade, window)>>,
                              !.steps = Append(@, "market")]
    /\ UNCHANGED <<fan, redis, ws, processed, event_history>>
    /\ UNCHANGED execFrame

\* Step 6, _check_and_send_alerts: a large trade publishes LargeTrade and
\* calls send_alert; check_price_alerts is called unless send_alert raised.
\* Step 7 is entered.
ExecAlerts ==
    /\ run.pc = "alerts"
    /\ \E failure \in AlertFailures(run.trade[1]) :
          LET trade == run.trade[1]
              next == after_alerts(failure)
          IN  /\ run' = [run EXCEPT
                           !.pc = next,
                           !.alerts = IF failure = "none"
                                      THEN "ok" ELSE "failed",
                           !.large_trades =
                               IF is_large_trade(trade)
                               THEN Append(@, [type |-> "LargeTrade",
                                               trade |-> trade,
                                               threshold_eth |->
                                                   threshold_eth])
                               ELSE @,
                           !.steps = Append(@, "alerts")]
              /\ fan' = IF next = "sinks"
                        THEN [FanIdle EXCEPT !.pc = "cache",
                                             !.event = run.event,
                                             !.trade = run.trade,
                                             !.market_data = run.market_data]
                        ELSE fan
    /\ UNCHANGED <<redis, ws, processed, event_history>>
    /\ UNCHANGED execFrame

\* Step 11 and the return statement: execute returns the trade.
ExecReturn ==
    /\ run.pc = "sinks"
    /\ fan.pc = "publish"
    /\ run' = [run EXCEPT !.pc = "returned",
                          !.steps = @ \o fan.calls,
                          !.outcome = fan.outcome,
                          !.returned = fan.trade]
    /\ fan' = FanIdle
    /\ UNCHANGED <<redis, ws, processed, event_history>>
    /\ UNCHANGED execFrame

NextExecute ==
    \/ ExecStart
    \/ ExecCandles
    \/ ExecMarket
    \/ ExecAlerts
    \/ FanCache
    \/ FanRoom
    \/ FanBackend
    \/ FanStream
    \/ ExecReturn
    \/ FanSubscribeRequest
    \/ FanSocketEvent

SpecExecute == Init /\ [][NextExecute]_vars

(***************************************************************************)
(* SpecCleanup: _periodic_cleanup and RedisService.cleanup_old_data over   *)
(* the sorted sets trades:stream:<token> the server holds.  Scores are unix *)
(* seconds.  The wall clock and the event loop's clock both advance by the *)
(* sleeps of the task; loop.time() is time.monotonic(), whose reference    *)
(* point is left open by the platform: seconds since the host started, or  *)
(* the same reading as the wall clock.                                     *)
(***************************************************************************)
\* What the event loop's clock reads when the wall clock reads now.
LoopClocks(now) == {60, 2 * 24 * 3600 + 60, now}

\* The scores of the members a set holds when the task starts, by wall
\* clock: 25 h old, 24 h and one second old, one hour old.
SweepScores(now) == {now - 25 * 3600, now - 24 * 3600 - 1, now - 3600}

\* ZREMRANGEBYSCORE key min max: the members left in the set.
zremrangebyscore(members, min_score, max_score) ==
    {s \in members : ~ (min_score <= s /\ s <= max_score)}

\* RedisService.cleanup_old_data, loop_time being what
\* asyncio.get_event_loop().time() returns; the server refuses the call for
\* the keys in refused (logged, 0 removed).
cleanup_old_data(loop_time, sets, hours, refused) ==
    LET cutoff_time == loop_time - (hours * 3600)
    IN  [key \in DOMAIN sets |->
           IF key \in refused
           THEN sets[key]
           ELSE zremrangebyscore(sets[key], 0, cutoff_time)]

InitCleanup ==
    /\ InitServices
    /\ floor_case = <<>>
    /\ run = RunIdle
    /\ sweep \in
         {<<[pc |-> "working", now |-> 1728000000, loop_time |-> l,
             sets |-> [t \in Tokens |-> IF t = "t1" THEN s ELSE {}],
             before |-> [t \in Tokens |-> {}], refused |-> {},
             sweeps |-> 0]>> :
              l \in LoopClocks(1728000000),
              s \in SUBSET SweepScores(1728000000)}
    /\ backend_socket = <<>>

sweepFrame == <<pipelineVars, candleVars, fanVars, statsVars, client, ingest,
                listener, boot, floor_case, run, backend_socket>>

\* One iteration of _periodic_cleanup up to its sleep: cleanup_old_data
\* with hours=24 and _log_system_stats.
SweepRun ==
    /\ sweep[1].pc = "working"
    /\ \E refused \in SUBSET {"t1"} :
          sweep' = <<[sweep[1] EXCEPT
                        !.pc = "sleeping",
                        !.before = sweep[1].sets,
                        !.refused = refused,
                        !.sets = cleanup_old_data(sweep[1].loop_time,
                                                  sweep[1].sets, 24,
                                                  refused),
                        !.sweeps = @ + 1]>>
    /\ UNCHANGED sweepFrame

\* asyncio.sleep(3600) returns: an hour has passed on both clocks.
SweepSleep ==
    /\ sweep[1].pc = "sleeping"
    /\ sweep[1].sweeps < MaxSweeps
    /\ sweep' = <<[sweep[1] EXCEPT !.pc = "working",
                                   !.now = @ + 3600,
                                   !.loop_time = @ + 3600]>>
    /\ UNCHANGED sweepFrame

\* Another client of the server adds a member scored with the current
\* unix time while the task sleeps.
SweepZAdd ==
    /\ sweep[1].pc = "sleeping"
    /\ \E t \in Tokens :
          /\ sweep[1].now \notin sweep[1].sets[t]
          /\ sweep' = <<[sweep[1] EXCEPT
                           !.sets[t] = @ \cup {sweep[1].now}]>>
    /\ UNCHANGED sweepFrame

NextCleanup ==
    \/ SweepRun
    \/ SweepSleep
    \/ SweepZAdd

SpecCleanup == InitCleanup /\ [][NextCleanup]_vars

(***************************************************************************)
(* SpecBackend: the backend socket of WebSocketService from                *)
(* _initialize_websocket on, await by await.  Every call of                *)
(* connect_to_backend builds a new socketio.AsyncClient and assigns it to  *)
(* _sio; a client that was connected stays connected until the server or   *)
(* disconnect() closes it.  The clients are counted: the one _sio refers   *)
(* to (sio_connected) and the earlier ones still connected (orphans).  Two *)
(* coroutines touch the service: the caller ("main": initialisation, then  *)
(* the sends of the event handler) and the socket client's task running    *)
(* the connect_error callback ("callback").                                *)
(***************************************************************************)
BackendCalls == {"main", "callback"}

\* A call: its position, whether the client it built is still _sio, and
\* the attempt and back-off of the sleep it is in.
NoCall == [pc |-> "none", current |-> FALSE, attempt |-> 0, delay |-> 0]

\* WebSocketService.__init__ and the position of _initialize_websocket.
NewBackend ==
    [stage |-> "init", sio |-> FALSE, sio_connected |-> FALSE, orphans |-> 0,
     is_connected |-> FALSE,
     reconnect_attempts |-> 0, calls |-> [c \in BackendCalls |-> NoCall],
     send_failures |-> 0, connect_errors |-> 0]

\* _handle_reconnection giving up one attempt later.
give_up_mut(reconnect_attempts) ==
    reconnect_attempts > max_reconnect_attempts

\* _handle_reconnection: the test that ends the reconnection.
give_up(reconnect_attempts) ==
    reconnect_attempts >= max_reconnect_attempts

\* _handle_reconnection: the back-off, in seconds.
delay(reconnect_attempts) == Min(2 ^ reconnect_attempts, 30)

\* _handle_reconnection run by call c up to its sleep: it returns at once
\* when the attempts are used up, else counts the attempt and sleeps.
begin_reconnection(b, c) ==
    IF give_up(b.reconnect_attempts)
    THEN [b EXCEPT !.calls[c].pc = "returned"]
    ELSE [b EXCEPT
            !.reconnect_attempts = @ + 1,
            !.calls[c].pc = "sleep",
            !.calls[c].attempt = b.reconnect_attempts + 1,
            !.calls[c].delay = delay(b.reconnect_attempts + 1)]

\* connect_to_backend run by call c up to await self._sio.connect: a new
\* client replaces _sio, the handlers are registered on it.
begin_connect(b, c) ==
    [b EXCEPT !.sio = TRUE,
              !.sio_connected = FALSE,
              !.orphans = IF b.sio_connected THEN @ + 1 ELSE @,
              !.calls = [k \in BackendCalls |->
                           IF k = c
                           THEN [pc |-> "connecting", current |-> TRUE,
                                 attempt |-> 0, delay |-> 0]
                           ELSE [@[k] EXCEPT !.current = FALSE]]]

backendFrame == <<pipelineVars, candleVars, fanVars, statsVars, client,
                  ingest, listener, boot, floor_case, run, sweep>>

\* _initialize_websocket in the development environment: the mock service,
\* no socket client.
BackendInitMock ==
    /\ backend_socket.stage = "init"
    /\ backend_socket.calls["main"].pc = "none"
    /\ backend_socket' = [backend_socket EXCEPT !.stage = "mock"]
    /\ UNCHANGED backendFrame

\* _initialize_websocket otherwise: connect_to_backend(), and after it has
\* returned start_server(), which calls connect_to_backend() again.
BackendInitialize ==
    /\ \/ /\ backend_socket.stage = "init"
          /\ backend_socket.calls["main"].pc = "none"
          /\ backend_socket' = [begin_connect(backend_socket, "main") EXCEPT
                           !.stage = "connect_to_backend"]
       \/ /\ backend_socket.stage = "connect_to_backend"
          /\ backend_socket.calls["main"].pc = "returned"
          /\ backend_socket' = [begin_connect(
                             [backend_socket EXCEPT !.calls["main"] = NoCall],
                             "main") EXCEPT
                           !.stage = "start_server"]
       \/ /\ backend_socket.stage = "start_server"
          /\ backend_socket.calls["main"].pc = "returned"
          /\ backend_socket' = [backend_socket EXCEPT !.stage = "running",
                                        !.calls["main"] = NoCall]
    /\ UNCHANGED backendFrame

\* await self._sio.connect(...) returns: the flag is raised, the counter
\* reset, and connect_to_backend returns through every _handle_reconnection
\* frame below it.
ConnectOk(c) ==
    /\ backend_socket.calls[c].pc = "connecting"
    /\ backend_socket' = [backend_socket EXCEPT
                     !.sio_connected =
                         @ \/ backend_socket.calls[c].current,
                     !.orphans = IF backend_socket.calls[c].current
                                 THEN @ ELSE @ + 1,
                     !.is_connected = TRUE,
                     !.reconnect_attempts = 0,
                     !.calls[c].pc = "returned"]
    /\ UNCHANGED backendFrame

\* await self._sio.connect(...) raises: the flag is lowered and
\* _handle_reconnection is awaited.
ConnectFail(c) ==
    /\ backend_socket.calls[c].pc = "connecting"
    /\ backend_socket' = begin_reconnection(
                      [backend_socket EXCEPT !.is_connected = FALSE], c)
    /\ UNCHANGED backendFrame

\* asyncio.sleep(delay) returns and _handle_reconnection calls
\* connect_to_backend.
ReconnectWake(c) ==
    /\ backend_socket.calls[c].pc = "sleep"
    /\ backend_socket' = begin_connect(backend_socket, c)
    /\ UNCHANGED backendFrame

\* The socket client runs the connect_error callback: the flag is lowered
\* and _handle_reconnection is awaited in the client's task.
ConnectErrorCallback ==
    /\ backend_socket.sio
    /\ backend_socket.calls["callback"].pc \in {"none", "returned"}
    /\ backend_socket.connect_errors < MaxConnectErrors
    /\ backend_socket' = begin_reconnection(
                      [backend_socket EXCEPT !.is_connected = FALSE,
                                      !.connect_errors = @ + 1,
                                      !.calls["callback"] = NoCall],
                      "callback")
    /\ UNCHANGED backendFrame

\* send_to_backend whose emit raises: the flag is lowered and
\* _handle_reconnection is awaited by the sender.
SendFail ==
    /\ backend_socket.stage = "running"
    /\ backend_socket.calls["main"].pc \in {"none", "returned"}
    /\ backend_socket.is_connected /\ backend_socket.sio
    /\ backend_socket.send_failures < MaxSendFailures
    /\ backend_socket' = begin_reconnection(
                      [backend_socket EXCEPT !.is_connected = FALSE,
                                      !.send_failures = @ + 1,
                                      !.calls["main"] = NoCall],
                      "main")
    /\ UNCHANGED backendFrame

\* The server closes the connection of the current client: its disconnect
\* callback lowers the flag.
ServerDisconnect ==
    /\ backend_socket.sio_connected
    /\ backend_socket' = [backend_socket EXCEPT !.sio_connected = FALSE,
                                                 !.is_connected = FALSE]
    /\ UNCHANGED backendFrame

NextBackend ==
    \/ BackendInitMock
    \/ BackendInitialize
    \/ \E c \in BackendCalls : ConnectOk(c)
    \/ \E c \in BackendCalls : ConnectFail(c)
    \/ \E c \in BackendCalls : ReconnectWake(c)
    \/ ConnectErrorCallback
    \/ SendFail
    \/ ServerDisconnect

\* A sleep returns and a connect attempt ends, one way or the other.
BackendProgress ==
    \E c \in BackendCalls : ConnectOk(c) \/ ConnectFail(c) \/ ReconnectWake(c)

InitBackend ==
    /\ InitServices
    /\ floor_case = <<>>
    /\ run = RunIdle
    /\ sweep = <<>>
    /\ backend_socket = NewBackend

SpecBackend ==
    InitBackend /\ [][NextBackend]_vars /\ WF_vars(BackendProgress)

(***************************************************************************)
(* SpecRooms: the room table WebSocketService._rooms under the             *)
(* subscribe_request and unsubscribe_request messages of the backend, the  *)
(* only code that writes it.                                               *)
(***************************************************************************)
\* The messages: complete ones for two tokens, two clients and the default
\* or a given interval, and ones with a field missing, null or empty.
RoomRequests ==
    {[token_address |-> t, client_id |-> c] : t \in Tokens, c \in {"u1", "u2"}}
      \cup {[token_address |-> t, client_id |-> c, interval |-> "5m"] :
              t \in Tokens, c \in {"u1", "u2"}}
      \cup {[client_id |-> "u1"], [token_address |-> "t1"],
            [token_address |-> None, client_id |-> "u1"],
            [token_address |-> "t1", client_id |-> ""]}

\* The backend delivers a subscribe_request message.
RoomsSubscribe ==
    /\ \E data \in RoomRequests :
          ws' = [ws EXCEPT !.rooms = subscribe_request(@, data)]
    /\ UNCHANGED <<fan, redis, processed, event_history>>
    /\ UNCHANGED <<fanFrame, candleVars, statsVars, lifeVars>>

\* The backend delivers an unsubscribe_request message.
RoomsUnsubscribe ==
    /\ \E data \in RoomRequests :
          ws' = [ws EXCEPT !.rooms = unsubscribe_request(@, data)]
    /\ UNCHANGED <<fan, redis, processed, event_history>>
    /\ UNCHANGED <<fanFrame, candleVars, statsVars, lifeVars>>

NextRooms ==
    \/ RoomsSubscribe
    \/ RoomsUnsubscribe

SpecRooms == Init /\ [][NextRooms]_vars

(***************************************************************************)
(* SpecFloor: TimeInterval.floor_timestamp applied to a timestamp and then *)
(* to its own result.                                                      *)
(***************************************************************************)
\* Interval starts the timestamps are taken around: the first three starts
\* of every interval, and the start of a day in 2024.
FloorBases ==
    {n * seconds(Intervals[i]) : n \in 0 .. 2, i \in IntervalIndex}
      \cup {1728000000}

\* Non-negative timestamps: one second before each start, the start, and
\* up to MaxOffset seconds after it.
FloorTimestamps ==
    {t \in {b + d : b \in FloorBases, d \in (0 - 1) .. MaxOffset} : t >= 0}

InitFloor ==
    /\ InitServices
    /\ floor_case \in
         {<<[pc |-> "input", interval |-> Intervals[i], timestamp |-> t,
             floor |-> 0, floor_floor |-> 0]>> :
              i \in IntervalIndex, t \in FloorTimestamps}
    /\ run = RunIdle
    /\ sweep = <<>>
    /\ backend_socket = <<>>

floorFrame == <<pipelineVars, candleVars, fanVars, statsVars, client, ingest,
                listener, boot, run, sweep, backend_socket>>

\* interval.floor_timestamp(timestamp)
FloorApply ==
    /\ floor_case[1].pc = "input"
    /\ floor_case' = <<[floor_case[1] EXCEPT
                          !.floor = floor_timestamp(floor_case[1].interval,
                                                    floor_case[1].timestamp),
                          !.pc = "floored"]>>
    /\ UNCHANGED floorFrame

\* interval.floor_timestamp of the value just computed
FloorAgain ==
    /\ floor_case[1].pc = "floored"
    /\ floor_case' = <<[floor_case[1] EXCEPT
                          !.floor_floor =
                              floor_timestamp(floor_case[1].interval,
                                              floor_case[1].floor),
                          !.pc = "done"]>>
    /\ UNCHANGED floorFrame

NextFloor == FloorApply \/ FloorAgain

SpecFloor == InitFloor /\ [][NextFloor]_vars

(***************************************************************************)
(* Properties.                                                             *)
(***************************************************************************)
Last(seq) == seq[Len(seq)]

RECURSIVE TradesIn(_, _)
\* The trades of one token among a sequence of dispatched events, in order.
TradesIn(events, token) ==
    IF events = <<>>
    THEN <<>>
    ELSE LET e == Head(events)
         IN  (IF IsTradeEvent(e) /\ e.token_address = token
              THEN <<e>>
              ELSE <<>>) \o TradesIn(Tail(events), token)

\* Ascending (block_number, log_index).
InBlockOrder(events) ==
    \A j, k \in 1 .. Len(events) :
        j < k =>
          \/ events[j].block_number < events[k].block_number
          \/ /\ events[j].block_number = events[k].block_number
             /\ events[j].log_index < events[k].log_index

\* The accepted trades of a token, as TradeEvent entities.
AcceptedTrades(token) ==
    LET es == TradesIn(dispatched, token)
    IN  [k \in 1 .. Len(es) |-> TradeOfEvent(es[k])]

\* Positions of the trades that fall in the bucket starting at bucket_ts.
InBucket(trades, i, bucket_ts) ==
    {k \in 1 .. Len(trades) :
        floor_timestamp(Intervals[i], trades[k].timestamp) = bucket_ts}

SetMax(S) == CHOOSE x \in S : \A y \in S : y <= x
SetMin(S) == CHOOSE x \in S : \A y \in S : x <= y

\* C1: every candle created by create_empty and mutated only by
\* update_with_trade has low <= open <= high, low <= close <= high and
\* total volume = buy volume + sell volume.
CandleInvariant ==
    candle # <<>> =>
      LET c == candle[1]
      IN  /\ c.low <= c.open /\ c.open <= c.high
          /\ c.low <= c.close /\ c.close <= c.high
          /\ c.total_volume = c.buy_volume + c.sell_volume

\* A candle that took buys and sells and whose open lies strictly between
\* its low and its high.
CandleInvariantWitness ==
    /\ candle # <<>>
    /\ candle[1].trade_count >= 2
    /\ candle[1].buy_volume > 0
    /\ candle[1].sell_volume > 0
    /\ candle[1].low < candle[1].open
    /\ candle[1].open < candle[1].high

\* C2: once the trades of a token, delivered in (block, log_index) order,
\* are processed, the latest candle of every interval closes at the last
\* trade's price_after and counts the trades that fall in its bucket.
LatestCandleMatchesTrades ==
    handler.pc = "idle" =>
      \A t \in Tokens, i \in IntervalIndex :
        LET trades == AcceptedTrades(t)
            h == event_history[t][i]
        IN  (trades # <<>> /\ InBlockOrder(TradesIn(dispatched, t))) =>
              /\ h # <<>>
              /\ Last(h).candle.close = Last(trades).price_after
              /\ Last(h).candle.trade_count =
                   Cardinality(InBucket(trades, i, Last(h).candle.timestamp))

\* C3: once the trades of a token, delivered in order, are processed, the
\* latest candle's high and low are the maximum and minimum of price_after
\* over the trades that fall in its bucket.
HighLowMatchTrades ==
    handler.pc = "idle" =>
      \A t \in Tokens, i \in IntervalIndex :
        LET trades == AcceptedTrades(t)
            h == event_history[t][i]
        IN  (trades # <<>> /\ InBlockOrder(TradesIn(dispatched, t))) =>
              /\ h # <<>>
              /\ LET prices == {trades[k].price_after :
                                  k \in InBucket(trades, i,
                                                 Last(h).candle.timestamp)}
                 IN  /\ prices # {}
                     /\ Last(h).candle.high = SetMax(prices)
                     /\ Last(h).candle.low = SetMin(prices)

\* C4: a trade whose bucket is the bucket of the latest candle of its
\* (token, interval) mutates that candle: the open is kept, volume and
\* trade count accumulate, and no second candle is created for the bucket.
SameBucketMutates ==
    \A t \in Tokens, i \in IntervalIndex :
      LET h == event_history[t][i]
          trades == AcceptedTrades(t)
      IN  \A k \in 2 .. Len(h) :
            h[k].candle.timestamp = h[k - 1].candle.timestamp =>
              /\ h[k].type = "CandleUpdated"
              /\ h[k].candle.open = h[k - 1].candle.open
              /\ h[k].candle.trade_count = h[k - 1].candle.trade_count + 1
              /\ h[k].candle.total_volume =
                   h[k - 1].candle.total_volume + trades[k].token_amount

\* C5: every newly created candle of a (token, interval) starts a positive
\* whole number of intervals after the previously latest candle.
NewCandleBucketsIncrease ==
    \A t \in Tokens, i \in IntervalIndex :
      LET h == event_history[t][i]
      IN  \A k \in 2 .. Len(h) :
            h[k].type = "NewCandleCreated" =>
              /\ h[k].candle.timestamp > h[k - 1].candle.timestamp
              /\ (h[k].candle.timestamp - h[k - 1].candle.timestamp)
                   % seconds(Intervals[i]) = 0

\* C6: a candle created by a trade with price_before = 0 opens at the
\* trade's price_after, which is then also its low.
ZeroPriceBeforeOpensAtPriceAfter ==
    \A t \in Tokens, i \in IntervalIndex :
      LET h == event_history[t][i]
          trades == AcceptedTrades(t)
      IN  \A k \in 1 .. Len(h) :
            (h[k].type = "NewCandleCreated" /\ trades[k].price_before = 0) =>
              /\ h[k].candle.open = trades[k].price_after
              /\ h[k].candle.low = trades[k].price_after

\* C7: on a bucket roll the new candle opens at the close of the candle
\* before it.
RollOpensAtPreviousClose ==
    \A t \in Tokens, i \in IntervalIndex :
      LET h == event_history[t][i]
      IN  \A k \in 2 .. Len(h) :
            (/\ h[k].type = "NewCandleCreated"
             /\ h[k].candle.timestamp > h[k - 1].candle.timestamp) =>
              h[k].candle.open = h[k - 1].candle.close

\* The (token, interval) key a worker of the current trade works on.
WorkerKey(i) == <<handler.trade[1].token_address, Intervals[i]>>

\* A worker is inside its read-modify-write from the moment it asks for the
\* latest candle until it has handed the candle back.
InReadModifyWrite(i) == workers[i].pc \in {"read", "write"}

\* C8: the dispatch loop handles at most one event at a time, and no two
\* workers are inside the read-modify-write of the same (token, interval)
\* key.
CandleWritesSerialized ==
    /\ Len(dispatched) - completed <= 1
    /\ \A i, j \in IntervalIndex :
         (i # j /\ InReadModifyWrite(i) /\ InReadModifyWrite(j)) =>
           WorkerKey(i) # WorkerKey(j)

\* A second trade is being handled, one worker has written, and two others
\* hold a candle they have read and not yet written.
CandleWritesSerializedWitness ==
    /\ completed >= 1
    /\ handler.pc = "candles"
    /\ \E i, j, k \in IntervalIndex :
         /\ i # j
         /\ workers[i].pc = "write"
         /\ workers[j].pc = "write"
         /\ workers[k].pc = "done"

\* C9: events reach the dispatch loop in ascending (block_number,
\* log_index) order.
DispatchedInBlockOrder == InBlockOrder(dispatched)

\* C10: once the subscription has started, every curve in the registry has
\* its Trade, TokensPurchased and TokensSold filters installed.
NewCurveFiltersInstalled ==
    sub.pc # "init" =>
      \A k \in 1 .. Len(curve_contracts), e \in 1 .. Len(CurveEvents) :
        InSeq([address |-> curve_contracts[k], event |-> CurveEvents[e]],
              event_filters)

\* The first and the last trade of the window in timestamp order.
FirstOfWindow == SortByTimestamp(stats_window)[1]
LastOfWindow == SortByTimestamp(stats_window)[Len(stats_window)]

\* Computing the statistics of the window fails: the price change over the
\* window is negative and Price refuses it.
StatsFail ==
    /\ stats_window # <<>>
    /\ LastOfWindow.price_after < FirstOfWindow.price_before

EmptyOrFailedStatsAreZero ==
    (stats_result # <<>> /\ (stats_window = <<>> \/ StatsFail)) =>
      LET md == stats_result[1].market_data
          t == stats_result[1].trade
      IN  /\ md.price_change_24h = 0
          /\ md.price_change_percent_24h = 0
          /\ md.volume_24h = 0
          /\ md.volume_eth_24h = 0
          /\ md.trades_24h = 0
          /\ md.current_price = t.price_after
          /\ md.market_cap = t.total_supply * t.price_after

\* Market data computed over a window of two trades whose statistics fail,
\* for a trade with a non-zero market cap.
EmptyOrFailedStatsAreZeroWitness ==
    /\ stats_result # <<>>
    /\ Len(stats_window) = 2
    /\ StatsFail
    /\ stats_result[1].market_data.market_cap = 10

\* The handler of a trade event is at pc (the sinks run from "cache" on).
HandlingTrade == fan.pc # "idle" /\ IsTradeEvent(fan.event[1])

\* execute() has run all its sinks for the trade and is about to return.
TradeFannedOut == fan.pc = "publish" /\ IsTradeEvent(fan.event[1])

\* The handling of a BondingCurveDeployed event has ended, by return or by
\* an exception.
DeployedHandled ==
    /\ fan.pc \in {"publish", "raised"}
    /\ fan.event[1].event_type = "BondingCurveDeployed"

\* Position of the first call of a sink among the calls of the handler.
CallOf(sink) == CHOOSE k \in 1 .. Len(fan.calls) : fan.calls[k] = sink

AllSinksCalled == \A sink \in Sinks : InSeq(sink, fan.calls)

\* The stream holds the record of the trade being handled.
TradeInStream ==
    \E k \in 1 .. Len(redis.stream) :
        /\ redis.stream[k].event_type = "Trade"
        /\ redis.stream[k].data.token_address = fan.trade[1].token_address
        /\ redis.stream[k].data.timestamp = fan.trade[1].timestamp

\* The cache entries of the token are those of the trade being handled.
TradeInCache ==
    LET trade == fan.trade[1]
        latest == redis.cache[<<"trade:latest", trade.token_address>>]
        market == redis.cache[<<"market", trade.token_address>>]
    IN  /\ latest # <<>>
        /\ latest[1].value.timestamp = trade.timestamp
        /\ market # <<>>
        /\ market[1].value.current_price = trade.price_after

\* C11: once a BondingCurveDeployed event has been handled, the cache holds
\* curve:<token>, the stream holds a record with event_type
\* "BondingCurveDeployed" and a new_curve broadcast has been sent.
DeployedCurveFansOut ==
    DeployedHandled =>
      LET token == fan.event[1].token_address
      IN  /\ redis.cache[<<"curve", token>>] # <<>>
          /\ \E k \in 1 .. Len(redis.stream) :
                /\ redis.stream[k].event_type = "BondingCurveDeployed"
                /\ redis.stream[k].data.token_address = token
          /\ \E k \in 1 .. Len(ws.emits) :
                /\ ws.emits[k].event = "broadcast"
                /\ ws.emits[k].data.type = "new_curve"

\* C12, as claimed: for each accepted trade the sinks are called in the
\* order cache write, stream append, live push.
SinksCalledCacheStreamPush ==
    TradeFannedOut =>
      /\ AllSinksCalled
      /\ CallOf("cache") < CallOf("stream")
      /\ CallOf("stream") < CallOf("room")
      /\ CallOf("stream") < CallOf("backend")

\* C12, amended: for each accepted trade the sinks are called in the order
\* cache write, live push (room message, then backend message), stream
\* append.
SinksCalledCachePushStream ==
    TradeFannedOut =>
      /\ AllSinksCalled
      /\ CallOf("cache") < CallOf("room")
      /\ CallOf("room") < CallOf("backend")
      /\ CallOf("backend") < CallOf("stream")

\* A trade has gone through its four sink calls, the second trade handled,
\* with both the cache write and the stream append accepted.
SinksCalledCachePushStreamWitness ==
    /\ TradeFannedOut
    /\ processed = 1
    /\ Len(fan.calls) = 4
    /\ fan.outcome["cache"] = "ok"
    /\ fan.outcome["stream"] = "ok"

\* A live push of the trade failed.
PushFailed ==
    fan.outcome["room"] = "failed" \/ fan.outcome["backend"] = "failed"

\* C13: for an accepted trade no sink failure leaves the handler by an
\* exception, every sink is called whatever the others did, and when the
\* live push failed the cache entries and the stream record of the trade
\* are written unless their own write failed.
SinkFailuresIsolated ==
    HandlingTrade =>
      /\ fan.pc # "raised"
      /\ fan.pc = "publish" =>
           /\ AllSinksCalled
           /\ (PushFailed /\ fan.outcome["cache"] = "ok") => TradeInCache
           /\ (PushFailed /\ fan.outcome["stream"] = "ok") => TradeInStream

\* A trade whose cache write failed and whose backend push failed, with the
\* stream record written all the same.
SinkFailuresIsolatedWitness ==
    /\ TradeFannedOut
    /\ fan.outcome["cache"] = "failed"
    /\ fan.outcome["backend"] = "failed"
    /\ fan.outcome["stream"] = "ok"
    /\ TradeInStream

\* C14: an accepted trade is in the stream once it is handled unless three
\* appends were tried: one refused append is retried.
StreamAppendRetried ==
    TradeFannedOut => (TradeInStream \/ fan.xadd_attempts >= 3)

\* C15: after an accepted trade the sorted set trades:stream:<token> holds
\* the trade scored by its timestamp, and at most 1000 members.
TradeInSortedSet ==
    TradeFannedOut =>
      LET trade == fan.trade[1]
          members == redis.trades_stream[trade.token_address]
      IN  /\ \E m \in members : m.score = trade.timestamp
          /\ Cardinality(members) <= 1000

\* C16: when a client is subscribed to the token of an accepted trade and
\* the backend socket is connected, a room_message for room token:<token>
\* carrying the trade is emitted.
SubscribedRoomGetsTrade ==
    (HandlingTrade /\ InSeq("room", fan.calls)) =>
      ((fan.subscribed /\ fan.connected) =>
         \E k \in 1 .. Len(ws.emits) :
            /\ ws.emits[k].event = "room_message"
            /\ ws.emits[k].room = <<"token", fan.trade[1].token_address>>
            /\ ws.emits[k].data.timestamp = fan.trade[1].timestamp)

\* C19: the market data of an accepted trade counts the trade itself:
\* trades_24h >= 1, and trades_24h = 1 for the first trade on the token.
MarketDataCountsTheTrade ==
    HandlingTrade =>
      /\ fan.market_data[1].trades_24h >= 1
      /\ processed = 0 => fan.market_data[1].trades_24h = 1

(***************************************************************************)
(* The chain client's intake and the dispatch loop (SpecIngest).           *)
(***************************************************************************)
\* The entry of the polling iteration that has just run.
PolledEntry == ingest'.entries[1]

PollStep == ingest'.polls = ingest.polls + 1

HandleStep == ingest'.handled = ingest.handled + 1

SinksAndCandlesUnchanged ==
    /\ event_history' = event_history
    /\ redis' = redis
    /\ ws' = ws

\* C21: a log whose address is neither the factory address (compared in
\* lower case) nor a key of the curve registry is dropped: nothing is
\* yielded and the registry, the candles, the cache, the stream and the
\* socket are as before.
UnknownAddressLogDropped ==
    [][(/\ PollStep
        /\ lower(PolledEntry.log.address) # lower(FactoryAddress)
        /\ ~ InSeq(PolledEntry.log.address, curve_contracts))
       => /\ ingest'.queue = <<>>
          /\ ingest'.yielded = ingest.yielded
          /\ curve_contracts' = curve_contracts
          /\ SinksAndCandlesUnchanged]_vars

\* C21 witness: a Trade log of a contract that is no curve went through
\* _process_log_entry with the node answering, and nothing was yielded.
UnknownAddressLogDroppedWitness ==
    /\ ingest.entries # <<>>
    /\ ingest.entries[1].log.address = "other"
    /\ ingest.entries[1].rpc_ok
    /\ ingest.queue = <<>>
    /\ ingest.pc = "poll"

\* C22: a log delivered with removed = TRUE yields no event.
RemovedLogIgnored ==
    \A k \in 1 .. Len(ingest.entries) :
        ingest.entries[k].log.removed => ingest.entries[k].event = <<>>

\* C23: an entry from which no event is decoded, and a yielded event whose
\* conversion into a TradeEvent raises, leave the candle events, the
\* cache, the stream and the socket as they were.
FailedDecodeOrConversionWritesNothing ==
    [][/\ (PollStep /\ PolledEntry.event = <<>>)
          => (ingest'.queue = <<>> /\ SinksAndCandlesUnchanged)
       /\ (/\ HandleStep
           /\ IsTradeEvent(Head(ingest.queue))
           /\ create_trade_raises(convert_to_trade_event(Head(ingest.queue))))
          => (ingest'.raised = ingest.raised + 1
              /\ SinksAndCandlesUnchanged)]_vars

\* C23 witness: a Trade log of curve c1 whose hash text TransactionHash
\* rejects was yielded and handled; execute raised and the stream and the
\* candle events are empty.
FailedDecodeOrConversionWritesNothingWitness ==
    /\ ingest.entries # <<>>
    /\ ingest.entries[1].event # <<>>
    /\ IsTradeEvent(ingest.entries[1].event[1])
    /\ create_trade_raises(convert_to_trade_event(ingest.entries[1].event[1]))
    /\ ingest.pc = "poll"
    /\ ingest.raised = 1
    /\ ingest.handled = 1
    /\ redis.stream = <<>>
    /\ event_history["t1"][1] = <<>>

\* C24: after a handler has raised the dispatch loop is still running and
\* every event yielded so far has been dispatched or waits to be.
DispatchLoopSurvivesFailure ==
    ingest.raised > 0
      => /\ ingest.loop = "running"
         /\ ingest.handled + Len(ingest.queue) = ingest.yielded
         /\ (ingest.pc = "poll" => ingest.handled = ingest.yielded)

\* C24 witness: an event was dispatched after the handling of an earlier
\* one had raised.
DispatchLoopSurvivesFailureWitness ==
    /\ ingest.raised > 0
    /\ ingest.after_raise > 0
    /\ ingest.handled > ingest.raised

\* The distinct curves, by checksum address, among the discovered ones and
\* those _add_curve_contract was called with.
DistinctCurves ==
    {to_checksum_address(InitialCurves[k]) : k \in 1 .. Len(InitialCurves)}
      \cup {to_checksum_address(ingest.added[k]) :
               k \in 1 .. Len(ingest.added)}

\* C29: however often, and in whatever letter case, an address is added,
\* the registry holds it once: its keys are pairwise different checksum
\* addresses, one per distinct curve added.
RegistryAddIdempotent ==
    /\ \A i, j \in 1 .. Len(curve_contracts) :
          i # j => curve_contracts[i] # curve_contracts[j]
    /\ \A i \in 1 .. Len(curve_contracts) :
          to_checksum_address(curve_contracts[i]) = curve_contracts[i]
    /\ Len(curve_contracts) = Cardinality(DistinctCurves)

\* C29 witness: curve c2 was added twice in a row, in two spellings, and
\* the registry grew by one.
RegistryAddIdempotentWitness ==
    /\ Len(ingest.added) = 2
    /\ ingest.added[1] # ingest.added[2]
    /\ to_checksum_address(ingest.added[1])
         = to_checksum_address(ingest.added[2])
    /\ Len(curve_contracts) = Len(InitialCurves) + 1

\* C30: a curve of the registry is in the registry after every step.
CurveNeverRemoved ==
    [][\A k \in 1 .. Len(curve_contracts) :
          InSeq(curve_contracts[k], curve_contracts')]_vars

\* C30 witness: c2 was added on its BondingCurveDeployed event, disconnect
\* has run since, and c1 and c2 are both in the registry.
CurveNeverRemovedWitness ==
    /\ ingest.disconnected
    /\ ~ client.is_connected
    /\ ingest.added # <<>>
    /\ InSeq("c1", curve_contracts)
    /\ InSeq("c2", curve_contracts)
(***************************************************************************)
(* SpecMain properties.                                                    *)
(***************************************************************************)
\* initialize() has returned or raised, and start() or the exit followed.
BootSettled == boot.pc \in {"fatal", "started", "exited"}

\* The environment was healthy at every start-up step: Redis answered,
\* the backend accepted both connects (or the mock service is in use),
\* the node connected with the configured chain id and answered the probe.
BootHealthy ==
    /\ boot.redis_ok /\ boot.backend_ok /\ boot.node_ok
    /\ boot.node_chain_id = chain_id

\* C25: when the cache, the backend socket and the chain node are all
\* reachable and healthy, initialize() completes with the use cases
\* constructed and start() launches the four tasks; the process does not
\* exit with status 1.
HealthyInitStartsTasks ==
    (BootSettled /\ BootHealthy)
        => (boot.use_cases /\ boot.tasks /\ boot.pc = "started"
              /\ boot.exit_status # 1)

\* C27: connect() on the chain client raises, leaving the client not
\* connected, when the node's chain id differs from the configured one; it
\* returns with the latest block number cached only when the ids match.
ChainIdMismatchFailsConnect ==
    boot.blockchain_service
        => /\ boot.node_chain_id # chain_id => ~ boot.connect_returned
           /\ boot.connect_returned
                => (boot.node_chain_id = chain_id
                      /\ client.last_block_number > 0)

(***************************************************************************)
(* SpecSupervisor properties.                                              *)
(***************************************************************************)
\* start() is over: _run_event_loop has returned or raised and the
\* finally clause has run _cleanup.
TeardownRan == listener.sup \in {"returned", "raised"}

\* C26: when one of the supervisor tasks finishes or fails, every
\* remaining task that is cancelled stops, and once teardown has run the
\* backend socket, the chain client and the cache are all disconnected.
TaskEndCancelsAndTearsDown ==
    /\ \A t \in listener.cancelled : Stopped(listener, t)
    /\ TeardownRan
         => (~ ws.is_connected /\ ~ client.is_connected
               /\ ~ listener.redis_service.is_connected)

\* C28: a loss of the chain connection while the subscription is polling
\* does not by itself (without a shutdown signal) end the event
\* subscription.
ConnectionLossKeepsSubscription ==
    (listener.lost /\ ~ listener.signalled)
        => listener.task["blockchain_events"] = "polling"

\* shutdown() or the finally clause of start() has run _cleanup.
CleanupRan == listener.shutdown_task = "done" \/ listener.teardowns > 0

\* C39: once teardown has disconnected the cache, no later step of a
\* handler, health check or cleanup iteration connects it again.
CacheStaysDisconnected ==
    [][(CleanupRan /\ ~ listener.redis_service.is_connected)
           => ~ listener'.redis_service.is_connected]_vars

(***************************************************************************)
(* SpecFloor properties.                                                   *)
(***************************************************************************)
\* C40: for every interval and every non-negative timestamp t, floor(t) is
\* a multiple of the interval's seconds with
\* floor(t) <= t < floor(t) + seconds, and floor(floor(t)) = floor(t).
FloorIsIdempotentBucketStart ==
    (floor_case # <<>> /\ floor_case[1].pc = "done")
        => LET c == floor_case[1]
               s == seconds(c.interval)
           IN  /\ c.floor % s = 0
               /\ c.floor <= c.timestamp
               /\ c.timestamp < c.floor + s
               /\ c.floor_floor = c.floor

\* A 4h bucket is computed for a timestamp strictly inside it.
FloorIsIdempotentBucketStartWitness ==
    /\ floor_case # <<>>
    /\ floor_case[1].pc = "done"
    /\ floor_case[1].interval = "4h"
    /\ floor_case[1].floor = 14400
    /\ floor_case[1].timestamp = 14400 + MaxOffset

(***************************************************************************)
(* SpecIngest: canonicalisation of TokensPurchased / TokensSold.           *)
(***************************************************************************)
\* The dict a native Trade log with the values of a TokensPurchased or
\* TokensSold event would be yielded as: direction from the event name,
\* price_before and total_supply 0, price_after the new price, the amounts
\* of the event.
AsNativeTrade(event) ==
    LET buy == event.event_type = "TokensPurchased"
    IN  [event_type |-> "Trade",
         token_address |-> event.token_address,
         curve_address |-> event.curve_address,
         is_buy |-> buy,
         eth_amount |-> IF buy THEN event.eth_spent ELSE event.eth_received,
         token_amount |-> IF buy THEN event.tokens_received
                          ELSE event.token_amount,
         price_before |-> 0,
         price_after |-> event.new_price,
         total_supply |-> 0,
         timestamp |-> event.block_timestamp,
         block_number |-> event.block_number,
         block_timestamp |-> event.block_timestamp,
         tx_hash |-> event.tx_hash]

\* C31: a TokensPurchased event is dispatched as a buy Trade and a
\* TokensSold event as a sell Trade with price_before = 0,
\* total_supply = 0, price_after = new_price and the amounts of the event:
\* handling it leaves the candles, the cache, the stream and the socket as
\* execute() leaves them for that native Trade.
PurchaseAndSaleHandledAsTrade ==
    [][(/\ HandleStep
        /\ Head(ingest.queue).event_type
              \in {"TokensPurchased", "TokensSold"})
         => \E out \in execute(event_history, redis, ws,
                               AsNativeTrade(Head(ingest.queue))) :
               /\ event_history' = out.event_history
               /\ redis' = out.redis
               /\ ws' = out.ws
               /\ (ingest'.raised > ingest.raised) = out.raised]_vars

\* A TokensPurchased event of token t1 has been handled: the cache holds
\* it as a buy of 3 tokens at the new price 2.
PurchaseAndSaleHandledAsTradeWitness ==
    /\ ingest.handled > 0
    /\ redis.cache[<<"trade:latest", "t1">>] # <<>>
    /\ redis.cache[<<"trade:latest", "t1">>][1].value.direction = "BUY"
    /\ redis.cache[<<"trade:latest", "t1">>][1].value.volume
          = Volume_from_wei(3)
    /\ redis.cache[<<"trade:latest", "t1">>][1].value.price
          = Price_from_wei(2)
    /\ Len(redis.stream) > 0
    /\ redis.stream[Len(redis.stream)].data.price_before = 0

(***************************************************************************)
(* SpecExecute properties.                                                 *)
(***************************************************************************)
\* The statements of execute() run so far for the trade, in order.
ExecTrace == IF run.pc = "sinks" THEN run.steps \o fan.calls ELSE run.steps

\* s occurs in ExecTrace before position k.
RanBefore(s, k) == \E j \in 1 .. (k - 1) : ExecTrace[j] = s

\* The candle event _update_candle_for_interval publishes for the trade
\* and interval i when nothing raises.
CandleEventOf(trade, i) ==
    [type |-> "NewCandleCreated",
     candle |-> update_with_trade(
                    create_empty(trade.token_address, Intervals[i],
                                 floor_timestamp(Intervals[i],
                                                 trade.timestamp),
                                 trade.price_before),
                    trade)]

\* C32: when the candle update of an interval raised for a trade, the
\* candle event of every other interval is published all the same, execute
\* does not leave by the exception, and by the time it returns the market
\* data has been computed and the four sinks have been called.
CandleErrorIsolated ==
    (run.candle_errors # {})
        => /\ run.pc \in {"market", "alerts", "sinks", "returned"}
           /\ \A i \in IntervalIndex \ run.candle_errors :
                  event_history[run.trade[1].token_address][i]
                      = <<CandleEventOf(run.trade[1], i)>>
           /\ run.pc = "returned"
                  => /\ run.market_data # <<>>
                     /\ \A s \in {"market", "alerts"} \cup Sinks :
                            \E k \in DOMAIN run.steps : run.steps[k] = s

CandleErrorIsolatedWitness ==
    /\ run.pc = "returned"
    /\ run.candle_errors = {3}
    /\ event_history["t1"][3] = <<>>
    /\ \A i \in IntervalIndex \ {3} : Len(event_history["t1"][i]) = 1
    /\ run.outcome["cache"] = "ok"
    /\ run.outcome["stream"] = "ok"

\* C33: the alerts of a trade are evaluated only after the cache write, the
\* stream append and the live pushes of that trade.
AlertsEvaluatedAfterSinks ==
    \A k \in DOMAIN ExecTrace :
        ExecTrace[k] = "alerts" => \A s \in Sinks : RanBefore(s, k)

\* C34: when a call of the alert service raised for a trade, execute does
\* not leave by the exception: it goes on with the sinks, and when it
\* returns, the cache write, both pushes and the stream append have been
\* called after the alerts and the value returned is the trade.
AlertFailureContained ==
    (run.alerts = "failed")
        => /\ run.pc \in {"sinks", "returned"}
           /\ run.pc = "returned"
                  => /\ run.returned = run.trade
                     /\ \A s \in Sinks :
                            \E k \in DOMAIN run.steps :
                                /\ run.steps[k] = s
                                /\ \E j \in 1 .. (k - 1) :
                                       run.steps[j] = "alerts"

AlertFailureContainedWitness ==
    /\ run.pc = "returned"
    /\ run.alerts = "failed"
    /\ Len(run.large_trades) = 1
    /\ run.returned # <<>>
    /\ run.returned[1].eth_amount = threshold_eth
    /\ run.outcome["cache"] = "ok"
    /\ run.outcome["stream"] = "ok"

(***************************************************************************)
(* SpecCleanup properties.                                                 *)
(***************************************************************************)
\* C35: after a run of the cleanup that the server did not refuse, no set
\* trades:stream:<token> holds a member scored more than 24 hours before
\* the wall clock, and every member of the last 24 hours is still there.
CleanupRemovesOldKeepsNew ==
    (sweep # <<>> /\ sweep[1].pc = "sleeping" /\ sweep[1].refused = {})
        => \A t \in Tokens :
              /\ \A s \in sweep[1].sets[t] : s >= sweep[1].now - 24 * 3600
              /\ \A s \in sweep[1].before[t] :
                     s > sweep[1].now - 24 * 3600 => s \in sweep[1].sets[t]

(***************************************************************************)
(* SpecBackend properties.                                                 *)
(***************************************************************************)
\* The socket clients connected to the backend.
ConnectedClients ==
    backend_socket.orphans + (IF backend_socket.sio_connected THEN 1 ELSE 0)

\* C36: at most one backend socket client is connected at any time, during
\* initialisation and after it.
AtMostOneBackendClient == ConnectedClients <= 1

FieldMissing(data) ==
    \/ ~ truthy(dict_get(data, "token_address", None))
    \/ ~ truthy(dict_get(data, "client_id", None))

\* The client of the message is in the room of the message.
InRoom(rooms, data) ==
    LET room == <<"token", dict_get(data, "token_address", None),
                  dict_get(data, "interval", "1m")>>
    IN  /\ room \in DOMAIN rooms
        /\ InSeq(dict_get(data, "client_id", None), rooms[room])

\* C38: after any sequence of subscribe_request and unsubscribe_request
\* messages every room of the table has a client and lists no client
\* twice; a second subscribe_request with the same message changes
\* nothing; an unsubscribe_request for a client that is not in the room,
\* and any request without token_address or client_id, changes nothing.
RoomTableWellFormed ==
    /\ \A room \in DOMAIN ws.rooms :
          /\ ws.rooms[room] # <<>>
          /\ \A j, k \in 1 .. Len(ws.rooms[room]) :
                 ws.rooms[room][j] = ws.rooms[room][k] => j = k
    /\ \A data \in RoomRequests :
          /\ subscribe_request(subscribe_request(ws.rooms, data), data)
                 = subscribe_request(ws.rooms, data)
          /\ (FieldMissing(data) \/ ~ InRoom(ws.rooms, data))
                 => unsubscribe_request(ws.rooms, data) = ws.rooms
          /\ FieldMissing(data) => subscribe_request(ws.rooms, data) = ws.rooms

RoomTableWellFormedWitness ==
    /\ DOMAIN ws.rooms = {<<"token", "t1", "1m">>, <<"token", "t2", "5m">>}
    /\ ws.rooms[<<"token", "t1", "1m">>] = <<"u2", "u1">>
    /\ ws.rooms[<<"token", "t2", "5m">>] = <<"u1">>

====
